---- MODULE Spec2Model ----
(***************************************************************************)
(* Model of the agent task scheduler (src/core/base_agent.py) and of the   *)
(* communication hub (src/core/communication.py).                          *)
(*                                                                         *)
(* One agent with its asyncio task queue and its _task_processor,         *)
(* _performance_monitor and _learning_loop coroutines, and one             *)
(* CommunicationHub with the Redis lists                                   *)
(* messages:{agent_id} and the Kafka topic.  Every action is the code      *)
(* between two suspension points (await) of one coroutine, which asyncio   *)
(* runs without interleaving.                                              *)
(*                                                                         *)
(* The clock (datetime.now(), time.time()) is the variable now; sleeps and *)
(* the dequeue timeout end after an unspecified delay.  The Redis commands *)
(* are taken to complete (but for the store write of the monitor in        *)
(* FaultSpec); the exceptions modelled are those of process_task, of the   *)
(* Kafka producer and of the repository's own conversions (json.dumps).    *)
(***************************************************************************)
EXTENDS Integers, Sequences, FiniteSets, TLC

(* ------------------------------ bounds -------------------------------- *)
MaxTasks == 2
MaxTime == 2
MaxMessages == 3
MaxBroadcastMessages == 4
MaxShareMessages == 4
MaxRecords == 4
MaxInboxMessages == 3
MaxCrisisMessages == 5
MaxSamples == 12
MaxFailedTasks == 5
MaxEarlier == 2
\* settings.LEARNING_BATCH_SIZE, a setting the environment can override
\* (default 100): the agent is configured with a small batch
LearningBatchSize == 11

(* --------------------------- program constants ------------------------ *)
MaxLearningData == 1000
KeepLearningData == 500
MaxHistory == 1000
KeepHistory == 500
FeedbackKept == 100
MinLearningData == 10
RecentWindow == 10

VARIABLES
    status,         \* BaseAgent.status
    task_queue,     \* BaseAgent.task_queue (asyncio.Queue), ids of AgentTask objects
    tasks,          \* the AgentTask objects created so far, by id
    proc,           \* the _task_processor coroutine: where it is suspended, its locals
    mon,            \* the _performance_monitor coroutine: where it is suspended, its locals
    learn,          \* the _learning_loop coroutine: where it is suspended
    learning_data,  \* BaseAgent.learning_data
    redis_perf,     \* Redis keys performance:{agent_id}:{metric_name}
    task_result,    \* Redis keys task_result:{task_id}
    now,            \* the clock
    active_agents,  \* CommunicationHub.active_agents
    kafka_producer, \* CommunicationHub.kafka_producer (and kafka_consumer) is not None
    kafka_topic,    \* the Kafka topic: the message dicts the hub's consumer has not polled yet
    redis_messages, \* Redis lists messages:{agent_id}, leftmost element first
    redis_feedback, \* Redis lists performance_feedback:{agent_id}
    message_history,\* CommunicationHub.message_history
    recv,           \* the get_messages_for_agent call in progress, or the last one
    sent,           \* number of send_message calls so far
    last_send,      \* what the last send_message call did
    awaiting,       \* per agent: messages sent to it with success since its last Receive began
    cleanup,        \* the cleanup_expired_messages call in progress: where it is, its locals
    bcast,          \* a send_message call that is inside the loop of _send_via_redis
    coord,          \* the coordinate_task call in progress, or what the last one returned
    consumer,       \* the _kafka_consumer_loop coroutine: where it is
    share,          \* a share_knowledge call: where it is suspended, its locals
    inbox,          \* a BaseAgent.process_messages call: where it is suspended, its locals
    earlier         \* loops created by earlier start() calls and still running, per kind

storeVars == <<cleanup, bcast, coord, consumer, share, inbox>>
hubVars == <<active_agents, kafka_producer, kafka_topic, redis_messages, redis_feedback,
             message_history, recv, sent, last_send, awaiting, storeVars>>
loopVars == <<mon, learn>>
agentVars == <<status, task_queue, tasks, proc, learning_data, redis_perf, task_result, loopVars,
               earlier>>
vars == <<status, task_queue, tasks, proc, mon, learn, learning_data, redis_perf, task_result, now,
          active_agents, kafka_producer, kafka_topic, redis_messages, redis_feedback,
          message_history, recv, sent, last_send, awaiting, cleanup, bcast, coord, consumer,
          share, inbox, earlier>>

(* ------------------------------ data types ---------------------------- *)
AgentStatus == {"inactive", "active", "learning", "error", "maintenance"}
TaskPriority == {"LOW", "MEDIUM", "HIGH", "CRITICAL"}
\* class TaskPriority: member name -> value
TaskPriorityValue == [LOW |-> 1, MEDIUM |-> 2, HIGH |-> 3, CRITICAL |-> 4]

\* Inputs of add_task.  An Optional[datetime] is the empty set (None) or {t}.
TaskTypes == {"echo", "post"}
Priorities == {"MEDIUM"}
ScheduleTimes == {{}, {1}, {MaxTime}}
\* What process_task returns or raises.
Results == {"r1", "r2"}
Errors == {"boom"}
LiveTaskTypes == {"echo"}
LiveResults == {"r1"}

\* the metrics _collect_performance_metrics returns, in the order of the dict
MonitorMetrics == <<"queue_size", "memory_usage", "time_since_update">>
MetricNames == {"task_execution_time", "task_failure_rate", "model_mse",
                "queue_size", "memory_usage", "time_since_update"}
\* _prepare_training_data: the metrics whose samples are training data
TrainableMetrics == {"task_execution_time", "success_rate"}
\* config["performance_thresholds"]: metric -> threshold, as <<numerator, denominator>>
PerformanceThresholds ==
    [m \in {"task_failure_rate", "task_execution_time"} |->
        IF m = "task_failure_rate" THEN <<1, 2>> ELSE <<1, 1>>]
\* what performance_model.fit does, and the mean squared error of a fit
FitOutcomes == {"ok", "raises"}
MseValues == {0}

\* Agent ids known to the callers of the hub.
Agents == {"A", "B"}
\* class MessageType, class MessagePriority: member name -> value
MessageTypeValue ==
    [TASK_COORDINATION |-> "task_coordination", KNOWLEDGE_SHARING |-> "knowledge_sharing",
     ALERT |-> "alert", PERFORMANCE_FEEDBACK |-> "performance_feedback",
     RESOURCE_REQUEST |-> "resource_request", STRATEGY_UPDATE |-> "strategy_update",
     CRISIS_NOTIFICATION |-> "crisis_notification"]
MessagePriorityValue == [LOW |-> 1, MEDIUM |-> 2, HIGH |-> 3, CRITICAL |-> 4]
\* required_agents of coordinate_task
RequiredAgents == {<<"B">>, <<"A", "B">>}
\* Inputs of send_message calls made by agents: (message_type, expires_at)
SendInputs == {<<"PERFORMANCE_FEEDBACK", {}>>, <<"CRISIS_NOTIFICATION", {1}>>}
\* the agents whose calls of send_message are enumerated
Senders == {"A"}

\* content of a message, a dict: the keys it has are those that are not "None"
NoContent ==
    [body |-> "None", event |-> "None", agent_id |-> "None", alert_type |-> "None",
     original_message |-> "None", source_agent |-> "None"]
\* what a caller of send_message puts in its message
Payload(uid) == [NoContent EXCEPT !.body = "payload_" \o ToString(uid)]
\* register_agent / unregister_agent: {"event": ..., "agent_id": ...}
EventContent(event, agent) == [NoContent EXCEPT !.event = event, !.agent_id = agent]
\* _handle_crisis_notification: {"alert_type": "crisis_escalation",
\* "original_message": message.content, "source_agent": message.sender_id}
CrisisEscalation(message) ==
    [NoContent EXCEPT !.alert_type = "crisis_escalation",
                      !.original_message = message.content.body,
                      !.source_agent = message.sender_id]

\* CommunicationMessage; uid is not a field of the program, it numbers the
\* send_message calls.  timestamp is left out.
CommunicationMessage(uid, sender, recipient, type, prio, expires) ==
    [uid |-> uid, sender_id |-> sender, recipient_id |-> recipient, message_type |-> type,
     priority |-> prio, content |-> Payload(uid), expires_at |-> expires,
     requires_response |-> FALSE, correlation_id |-> "None"]

RecvIdle == [pc |-> "idle", agent |-> "None", messages |-> <<>>, called_at |-> 0,
             returned_at |-> 0, snapshot |-> <<>>, expected |-> {}]
CleanupIdle == [pc |-> "idle", current_time |-> 0, size |-> 0, todo |-> {},
                agent |-> "None", messages |-> <<>>, valid_messages |-> <<>>]
NoBroadcast == [pc |-> "idle", message |-> <<>>, size |-> 0, start |-> {}, visited |-> {}]
NoCoordination == [pc |-> "idle", coordination_id |-> "None", coordinator_id |-> "None",
                   required_agents |-> <<>>, todo |-> <<>>]
\* share_knowledge: no call is in progress
NoShare == [pc |-> "idle", sender_id |-> "None", target_agents |-> [given |-> FALSE, list |-> <<>>],
            active |-> {}, todo |-> <<>>, messages |-> <<>>]
\* process_messages: no call is in progress; pushed counts the entries peers
\* have written
NoInbox == [pc |-> "idle", agent |-> "None", messages |-> <<>>, idx |-> 0, handled |-> <<>>,
            pushed |-> 0]
NoSend == [uid |-> 0, recipient |-> "None", ok |-> FALSE, kafka |-> "none"]

NotRun == [kind |-> "none", value |-> "None"]

AgentTask(type, prio, sched) ==
    [task_type |-> type, priority |-> prio, scheduled_at |-> sched,
     completed_at |-> {}, status |-> "pending", result |-> "None", error |-> "None",
     started |-> <<>>, deferred |-> FALSE, handler |-> NotRun]

\* The last three fields are not fields of the program, they record what
\* happened to the task: the clock readings at which process_task was entered
\* for it, whether the task processor ever deferred it, and what process_task
\* did (NotRun, or returned / raised with the value).

ProcIdle == [pc |-> "idle", task |-> 0, start_time |-> 0, execution_time |-> 0]

\* pc "top" is a loop created or asleep, about to test its while condition.
\* flagged is not a local of the program: the metrics for which the last
\* _check_performance_thresholds call logged a breach.
MonIdle == [pc |-> "idle", metrics |-> <<>>, idx |-> 0, flagged |-> {}]
LearnIdle == [pc |-> "idle"]

(* ----------------------------- pure helpers --------------------------- *)
\* NotYetDue with the comparison the wrong way round
NotYetDueFlipped(task, t) == \E s \in task.scheduled_at : s < t

\* task.scheduled_at and task.scheduled_at > datetime.now()
NotYetDue(task, t) == \E s \in task.scheduled_at : s > t

\* while self.status == AgentStatus.ACTIVE: the next position of a loop
\* that returns to its condition
Min(a, b) == IF a < b THEN a ELSE b

LoopTop(st) == IF st = "active" THEN "get" ELSE "exited"

\* AppendSample with a trim that keeps the first 500
AppendSampleOldest(ld, sample) ==
    LET all == Append(ld, sample)
    IN  IF Len(all) > MaxLearningData
        THEN SubSeq(all, 1, KeepLearningData)
        ELSE all

\* self.learning_data.append(...) followed by the trim to the last 500
AppendSample(ld, sample) ==
    LET all == Append(ld, sample)
    IN  IF Len(all) > MaxLearningData
        THEN SubSeq(all, Len(all) - KeepLearningData + 1, Len(all))
        ELSE all

\* json.dumps(asdict(task)) after the datetime fields are made strings:
\* asdict keeps an Enum member as it is, and json.dumps raises TypeError on it.
JsonDumpsRaises(task) == task.priority \in TaskPriority

(* ------------------------------- Init --------------------------------- *)
\* No loop of an earlier start() call is running.
NoEarlier == [processor |-> 0, monitor |-> 0, learning |-> 0]

\* BaseAgent.__init__
AgentInit ==
    /\ status = "inactive"
    /\ task_queue = <<>>
    /\ tasks = <<>>
    /\ proc = ProcIdle
    /\ mon = MonIdle
    /\ learn = LearnIdle
    /\ learning_data = <<>>
    /\ redis_perf = [m \in MetricNames |-> {}]
    /\ task_result = [i \in 1..MaxTasks |-> {}]
    /\ earlier = NoEarlier

\* CommunicationHub.__init__; kafka is whether _init_kafka succeeded
HubInit(kafka) ==
    /\ active_agents = {}
    /\ kafka_producer = kafka
    /\ kafka_topic = <<>>
    /\ redis_messages = [a \in Agents |-> <<>>]
    /\ redis_feedback = [a \in Agents |-> <<>>]
    /\ message_history = <<>>
    /\ recv = RecvIdle
    /\ sent = 0
    /\ last_send = NoSend
    /\ awaiting = [a \in Agents |-> {}]
    /\ cleanup = CleanupIdle
    /\ bcast = NoBroadcast
    /\ coord = NoCoordination
    /\ consumer = "idle"
    /\ share = NoShare
    /\ inbox = NoInbox

Init ==
    /\ AgentInit
    /\ HubInit(FALSE)
    /\ now = 0

(* ------------------------------ actions ------------------------------- *)
\* The clock advances.
Tick ==
    /\ now < MaxTime
    /\ now' = now + 1
    /\ UNCHANGED <<agentVars, hubVars>>

\* BaseAgent.start: status ACTIVE and the three loops created.  It is
\* called when no task processor of the agent is running.
Start ==
    /\ proc.pc \in {"idle", "exited"}
    /\ status' = "active"
    /\ proc' = [ProcIdle EXCEPT !.pc = "get"]
    /\ mon' = [mon EXCEPT !.pc = "top", !.metrics = <<>>, !.idx = 0]
    /\ learn' = [learn EXCEPT !.pc = "top"]
    /\ UNCHANGED <<task_queue, tasks, learning_data, redis_perf, task_result, now, earlier, hubVars>>

\* The monitor and the learning loop of an earlier start have ended.
LoopsEnded ==
    /\ mon.pc \in {"idle", "exited"}
    /\ learn.pc \in {"idle", "exited"}

\* BaseAgent.start, called when no loop of an earlier start is running
StartEnded == Start /\ LoopsEnded

\* BaseAgent.stop
Stop ==
    /\ status \in {"active", "learning"}
    /\ status' = "inactive"
    /\ UNCHANGED <<task_queue, tasks, proc, learning_data, redis_perf, task_result, now, earlier, hubVars, loopVars>>

\* BaseAgent.add_task: the task is put at the end of the queue.  task_type,
\* priority and scheduled_at are drawn from types, prios and scheds, while
\* fewer than limit tasks were added
AddTaskOf(types, prios, scheds, limit) ==
    /\ Len(tasks) < limit
    /\ \E type \in types, prio \in prios, sched \in scheds :
          /\ tasks' = Append(tasks, AgentTask(type, prio, sched))
          /\ task_queue' = Append(task_queue, Len(tasks) + 1)
    /\ UNCHANGED <<status, proc, learning_data, redis_perf, task_result, now, earlier, hubVars, loopVars>>

\* BaseAgent.add_task, the task_type drawn from types and scheduled_at from
\* scheds, while fewer than limit tasks were added
AddTaskWith(types, scheds, limit) == AddTaskOf(types, Priorities, scheds, limit)

\* BaseAgent.add_task, the task_type drawn from types
AddTask(types) == AddTaskWith(types, ScheduleTimes, MaxTasks)

\* The place in the queue q of the task a priority queue would return: the
\* highest TaskPriority value, the earliest among equals
HighestFirst(q) ==
    CHOOSE k \in DOMAIN q : \A l \in DOMAIN q :
        \/ TaskPriorityValue[tasks[q[l]].priority] < TaskPriorityValue[tasks[q[k]].priority]
        \/ /\ TaskPriorityValue[tasks[q[l]].priority] = TaskPriorityValue[tasks[q[k]].priority]
           /\ k <= l

\* Dequeue from a priority queue
DequeueByPriority ==
    /\ proc.pc = "get"
    /\ task_queue # <<>>
    /\ LET k == HighestFirst(task_queue)
           id == task_queue[k]
       IN  /\ task_queue' = SubSeq(task_queue, 1, k - 1) \o SubSeq(task_queue, k + 1, Len(task_queue))
           /\ IF NotYetDue(tasks[id], now)
              THEN /\ proc' = [proc EXCEPT !.pc = "defer_sleep", !.task = id]
                   /\ tasks' = [tasks EXCEPT ![id].deferred = TRUE]
              ELSE /\ proc' = [proc EXCEPT !.pc = "exec", !.task = id, !.start_time = now]
                   /\ tasks' = [tasks EXCEPT ![id].started = Append(@, now)]
    /\ UNCHANGED <<status, learning_data, redis_perf, task_result, now, earlier, hubVars, loopVars>>

\* _task_processor: queue.get() returns a task; it is deferred or process_task is entered.
Dequeue ==
    /\ proc.pc = "get"
    /\ task_queue # <<>>
    /\ LET id == Head(task_queue)
       IN  /\ task_queue' = Tail(task_queue)
           /\ IF NotYetDue(tasks[id], now)
              THEN /\ proc' = [proc EXCEPT !.pc = "defer_sleep", !.task = id]
                   /\ tasks' = [tasks EXCEPT ![id].deferred = TRUE]
              ELSE /\ proc' = [proc EXCEPT !.pc = "exec", !.task = id, !.start_time = now]
                   /\ tasks' = [tasks EXCEPT ![id].started = Append(@, now)]
    /\ UNCHANGED <<status, learning_data, redis_perf, task_result, now, earlier, hubVars, loopVars>>

\* GetTimeout of a queue.get() without timeout: the empty queue keeps the
\* task processor waiting
GetWaitsForever ==
    /\ proc.pc = "get"
    /\ task_queue = <<>>
    /\ UNCHANGED vars

\* _task_processor: asyncio.TimeoutError of wait_for on an empty queue
GetTimeout ==
    /\ proc.pc = "get"
    /\ task_queue = <<>>
    /\ proc' = [proc EXCEPT !.pc = LoopTop(status)]
    /\ UNCHANGED <<status, task_queue, tasks, learning_data, redis_perf, task_result, now, earlier, hubVars, loopVars>>

\* Requeue that retries the deferred task in place (head of the queue)
RequeueAtHead ==
    /\ proc.pc = "defer_sleep"
    /\ task_queue' = <<proc.task>> \o task_queue
    /\ proc' = [proc EXCEPT !.pc = LoopTop(status), !.task = 0]
    /\ UNCHANGED <<status, tasks, learning_data, redis_perf, task_result, now, earlier, hubVars, loopVars>>

\* Requeue that forgets the deferred task
RequeueDropped ==
    /\ proc.pc = "defer_sleep"
    /\ proc' = [proc EXCEPT !.pc = LoopTop(status), !.task = 0]
    /\ UNCHANGED <<status, task_queue, tasks, learning_data, redis_perf, task_result, now, earlier, hubVars, loopVars>>

\* Requeue that puts the deferred task back twice
RequeueTwice ==
    /\ proc.pc = "defer_sleep"
    /\ task_queue' = task_queue \o <<proc.task, proc.task>>
    /\ proc' = [proc EXCEPT !.pc = LoopTop(status), !.task = 0]
    /\ UNCHANGED <<status, tasks, learning_data, redis_perf, task_result, now, earlier, hubVars, loopVars>>

\* _task_processor: asyncio.sleep(1) ends, the deferred task is put back
Requeue ==
    /\ proc.pc = "defer_sleep"
    /\ task_queue' = Append(task_queue, proc.task)
    /\ proc' = [proc EXCEPT !.pc = LoopTop(status), !.task = 0]
    /\ UNCHANGED <<status, tasks, learning_data, redis_perf, task_result, now, earlier, hubVars, loopVars>>

\* HandlerReturn that marks the task completed without keeping the result
HandlerReturnNoResult(results) ==
    /\ proc.pc = "exec"
    /\ \E r \in results :
          tasks' = [tasks EXCEPT ![proc.task].status = "completed",
                                 ![proc.task].completed_at = {now},
                                 ![proc.task].handler = [kind |-> "returned", value |-> r]]
    /\ proc' = [proc EXCEPT !.pc = "record_ok", !.execution_time = now - proc.start_time]
    /\ UNCHANGED <<status, task_queue, learning_data, redis_perf, task_result, now, earlier, hubVars, loopVars>>

\* process_task returns a value of results
HandlerReturn(results) ==
    /\ proc.pc = "exec"
    /\ \E r \in results :
          tasks' = [tasks EXCEPT ![proc.task].result = r,
                                 ![proc.task].status = "completed",
                                 ![proc.task].completed_at = {now},
                                 ![proc.task].handler = [kind |-> "returned", value |-> r]]
    /\ proc' = [proc EXCEPT !.pc = "record_ok", !.execution_time = now - proc.start_time]
    /\ UNCHANGED <<status, task_queue, learning_data, redis_perf, task_result, now, earlier, hubVars, loopVars>>

\* HandlerRaise that keeps the error but leaves the status as it was
HandlerRaiseStatusKept ==
    /\ proc.pc = "exec"
    /\ \E e \in Errors :
          tasks' = [tasks EXCEPT ![proc.task].error = e,
                                 ![proc.task].handler = [kind |-> "raised", value |-> e]]
    /\ proc' = [proc EXCEPT !.pc = "record_fail"]
    /\ UNCHANGED <<status, task_queue, learning_data, redis_perf, task_result, now, earlier, hubVars, loopVars>>

\* process_task raises
HandlerRaise ==
    /\ proc.pc = "exec"
    /\ \E e \in Errors :
          tasks' = [tasks EXCEPT ![proc.task].error = e,
                                 ![proc.task].status = "failed",
                                 ![proc.task].handler = [kind |-> "raised", value |-> e]]
    /\ proc' = [proc EXCEPT !.pc = "record_fail"]
    /\ UNCHANGED <<status, task_queue, learning_data, redis_perf, task_result, now, earlier, hubVars, loopVars>>

\* _store_task_result, then back to the loop condition; a TypeError of
\* json.dumps goes to the except Exception of _task_processor (sleep 5).
StoreTaskResult(id) ==
    IF JsonDumpsRaises(tasks[id])
    THEN /\ task_result' = task_result
         /\ proc' = [ProcIdle EXCEPT !.pc = "err_sleep"]
    ELSE /\ task_result' = [task_result EXCEPT ![id] = {tasks[id]}]
         /\ proc' = [ProcIdle EXCEPT !.pc = LoopTop(status)]

\* _record_performance(metric, value, context), the Redis setex done
RecordPerformance(metric, value, context) ==
    /\ redis_perf' = [redis_perf EXCEPT ![metric] = {value}]
    /\ learning_data' = AppendSample(learning_data,
                           [metric |-> metric, value |-> value, context |-> context])

\* success branch: _record_performance("task_execution_time", ...), then _store_task_result
RecordExecutionTime ==
    /\ proc.pc = "record_ok"
    /\ RecordPerformance("task_execution_time", proc.execution_time,
                         tasks[proc.task].task_type)
    /\ StoreTaskResult(proc.task)
    /\ UNCHANGED <<status, task_queue, tasks, now, earlier, hubVars, loopVars>>

\* except branch: _record_performance("task_failure_rate", 1.0, ...), then _store_task_result
RecordFailure ==
    /\ proc.pc = "record_fail"
    /\ RecordPerformance("task_failure_rate", 1, tasks[proc.task].task_type)
    /\ StoreTaskResult(proc.task)
    /\ UNCHANGED <<status, task_queue, tasks, now, earlier, hubVars, loopVars>>

\* What the store raises when it cannot be reached.
StoreErrors == {"connection_error"}

\* success branch: the setex of _record_performance("task_execution_time", ...)
\* raises; the call is inside the try of process_task, so the inner
\* `except Exception` runs: error and status 'failed' are set
RecordExecutionTimeRaises ==
    /\ proc.pc = "record_ok"
    /\ \E e \in StoreErrors :
          tasks' = [tasks EXCEPT ![proc.task].error = e, ![proc.task].status = "failed"]
    /\ proc' = [proc EXCEPT !.pc = "record_fail"]
    /\ UNCHANGED <<status, task_queue, learning_data, redis_perf, task_result, now, earlier, hubVars,
                   loopVars>>

\* except branch: the setex of _record_performance("task_failure_rate", ...)
\* raises; the outer `except Exception` logs and sleeps 5 seconds
RecordFailureRaises ==
    /\ proc.pc = "record_fail"
    /\ proc' = [ProcIdle EXCEPT !.pc = "err_sleep"]
    /\ UNCHANGED <<status, task_queue, tasks, learning_data, redis_perf, task_result, now,
                   earlier, hubVars, loopVars>>

\* except Exception of _task_processor: asyncio.sleep(5) ends
ErrorSleepEnds ==
    /\ proc.pc = "err_sleep"
    /\ proc' = [proc EXCEPT !.pc = LoopTop(status)]
    /\ UNCHANGED <<status, task_queue, tasks, learning_data, redis_perf, task_result, now, earlier, hubVars, loopVars>>

ProcessorStep(results) ==
    \/ Dequeue
    \/ GetTimeout
    \/ Requeue
    \/ HandlerReturn(results)
    \/ HandlerRaise
    \/ RecordExecutionTime
    \/ RecordFailure
    \/ ErrorSleepEnds

(* ------------------ _performance_monitor, _learning_loop --------------- *)
RECURSIVE Sum(_)
Sum(values) == IF values = <<>> THEN 0 ELSE Head(values) + Sum(Tail(values))

\* self.learning_data[-10:]
Recent(ld) == SubSeq(ld, IF Len(ld) > RecentWindow THEN Len(ld) - RecentWindow + 1 ELSE 1, Len(ld))

\* [item["value"] for item in items if item["metric"] == metric]
RECURSIVE ValuesOf(_, _)
ValuesOf(items, metric) ==
    IF items = <<>> THEN <<>>
    ELSE (IF Head(items).metric = metric THEN <<Head(items).value>> ELSE <<>>)
         \o ValuesOf(Tail(items), metric)

\* np.mean(values) < threshold, the threshold a fraction
MeanBelow(values, threshold) == Sum(values) * threshold[2] < threshold[1] * Len(values)

\* _check_performance_thresholds: the metrics for which a breach is logged
\* and _handle_performance_issue is called
Breaches(ld) ==
    {m \in DOMAIN PerformanceThresholds :
        LET recent_values == ValuesOf(Recent(ld), m)
        IN  recent_values # <<>> /\ MeanBelow(recent_values, PerformanceThresholds[m])}

\* _prepare_training_data: the samples that become rows of X
Trainable(ld) == {k \in 1..Len(ld) : ld[k].metric \in TrainableMetrics}

\* _collect_performance_metrics; last_update is the time of __init__
CollectPerformanceMetrics == <<Len(task_queue), Len(learning_data), now - 0>>

\* _performance_monitor: the loop is run for the first time or its sleep
\* ends; it tests its condition, collects the metrics and calls
\* _record_performance for the first
MonitorBegin ==
    /\ mon.pc = "top"
    /\ status = "active" => Len(learning_data) + Len(MonitorMetrics) <= MaxSamples
    /\ mon' = IF status = "active"
              THEN [mon EXCEPT !.pc = "record", !.metrics = CollectPerformanceMetrics,
                               !.idx = 1]
              ELSE [mon EXCEPT !.pc = "exited"]
    /\ UNCHANGED <<status, task_queue, tasks, proc, learn, learning_data, redis_perf,
                   task_result, now, earlier, hubVars>>

\* _performance_monitor: the setex of _record_performance is done, the
\* sample is appended; then the next metric, or after the last one
\* _check_performance_thresholds and the sleep
MonitorRecord ==
    /\ mon.pc = "record"
    /\ RecordPerformance(MonitorMetrics[mon.idx], mon.metrics[mon.idx], "None")
    /\ mon' = IF mon.idx < Len(MonitorMetrics)
              THEN [mon EXCEPT !.idx = @ + 1]
              ELSE [mon EXCEPT !.pc = "top", !.metrics = <<>>, !.idx = 0,
                               !.flagged = Breaches(learning_data')]
    /\ UNCHANGED <<status, task_queue, tasks, proc, learn, task_result, now, earlier, hubVars>>

\* OnMonitorError that lets the exception end the loop
OnMonitorErrorExit == "exited"

\* except Exception of _performance_monitor: the error is logged and the
\* loop waits in asyncio.sleep(60)
OnMonitorError == "err_sleep"

\* _performance_monitor: the setex of _record_performance raises (the store
\* cannot be reached); no sample is appended
MonitorRaises ==
    /\ mon.pc = "record"
    /\ mon' = [mon EXCEPT !.pc = OnMonitorError, !.metrics = <<>>, !.idx = 0]
    /\ UNCHANGED <<status, task_queue, tasks, proc, learn, learning_data, redis_perf,
                   task_result, now, earlier, hubVars>>

\* _performance_monitor: asyncio.sleep(60) of the except branch ends, the
\* loop is back at its condition
MonitorErrorSleepEnds ==
    /\ mon.pc = "err_sleep"
    /\ mon' = [mon EXCEPT !.pc = "top"]
    /\ UNCHANGED <<status, task_queue, tasks, proc, learn, learning_data, redis_perf,
                   task_result, now, earlier, hubVars>>

\* BatchReady that lets every cycle train
BatchReadyAlways(ld) == TRUE

\* len(self.learning_data) >= settings.LEARNING_BATCH_SIZE
BatchReady(ld) == Len(ld) >= LearningBatchSize

\* RestoredStatus that leaves the status as it is
RestoredStatusKept(st) == st

\* self.status = AgentStatus.ACTIVE after _update_models
RestoredStatus(st) == "active"

\* _learning_loop: the loop is run for the first time or its sleep ends; it
\* tests its condition and the batch size, and runs _update_models up to
\* the await of _record_performance("model_mse", ...).  An exception of fit
\* is caught in _update_models.
LearnBegin ==
    /\ learn.pc = "top"
    /\ status = "active" => Len(learning_data) < MaxSamples
    /\ IF status # "active"
       THEN /\ learn' = [learn EXCEPT !.pc = "exited"]
            /\ UNCHANGED status
       ELSE IF ~BatchReady(learning_data)
       THEN \* the sleep again
            UNCHANGED <<learn, status>>
       ELSE IF Len(learning_data) < MinLearningData \/ Trainable(learning_data) = {}
       THEN \* _update_models returns without a fit
            /\ status' = RestoredStatus("learning")
            /\ UNCHANGED learn
       ELSE \E fit \in FitOutcomes :
               IF fit = "ok"
               THEN /\ learn' = [learn EXCEPT !.pc = "record_mse"]
                    /\ status' = "learning"
               ELSE /\ status' = RestoredStatus("learning")
                    /\ UNCHANGED learn
    /\ UNCHANGED <<task_queue, tasks, proc, mon, learning_data, redis_perf, task_result,
                   now, earlier, hubVars>>

\* _learning_loop: the setex of _record_performance("model_mse", mse) is
\* done, the sample is appended, _update_models returns and the status is
\* set back; then the sleep
LearnRecorded ==
    /\ learn.pc = "record_mse"
    /\ \E mse \in MseValues : RecordPerformance("model_mse", mse, "None")
    /\ status' = RestoredStatus(status)
    /\ learn' = [learn EXCEPT !.pc = "top"]
    /\ UNCHANGED <<task_queue, tasks, proc, mon, task_result, now, earlier, hubVars>>

Next ==
    \/ Tick
    \/ Start
    \/ Stop
    \/ AddTask(TaskTypes)
    \/ ProcessorStep(Results)

Spec == Init /\ [][Next]_vars

(* ------------- start() while loops of an earlier call run ------------- *)
\* 1 for a coroutine that is in its loop, 0 for one that was never created
\* or has returned.
Alive(pc) == IF pc \in {"idle", "exited"} THEN 0 ELSE 1

\* BaseAgent.start, whenever it is called: status ACTIVE and three new
\* loops created with asyncio.create_task.  The loops of earlier calls are
\* not cancelled: those still running are counted in earlier, and proc, mon
\* and learn follow the new ones.  (No task is held: proc.task = 0.)
StartAnew ==
    /\ proc.task = 0
    /\ earlier.processor + Alive(proc.pc) <= MaxEarlier
    /\ earlier.monitor + Alive(mon.pc) <= MaxEarlier
    /\ earlier.learning + Alive(learn.pc) <= MaxEarlier
    /\ status' = "active"
    /\ earlier' = [processor |-> earlier.processor + Alive(proc.pc),
                   monitor |-> earlier.monitor + Alive(mon.pc),
                   learning |-> earlier.learning + Alive(learn.pc)]
    /\ proc' = [ProcIdle EXCEPT !.pc = "get"]
    /\ mon' = [mon EXCEPT !.pc = "top", !.metrics = <<>>, !.idx = 0]
    /\ learn' = [learn EXCEPT !.pc = "top"]
    /\ UNCHANGED <<task_queue, tasks, learning_data, redis_perf, task_result, now, hubVars>>

\* A loop of an earlier start() call comes to its `while self.status ==
\* AgentStatus.ACTIVE` (after the timeout of its dequeue, or after its
\* sleep) and finds another status: it returns.
EarlierEnds(kind) ==
    /\ earlier[kind] > 0
    /\ kind = "processor" => task_queue = <<>>
    /\ status # "active"
    /\ earlier' = [earlier EXCEPT ![kind] = @ - 1]
    /\ UNCHANGED <<status, task_queue, tasks, proc, learning_data, redis_perf, task_result, now,
                   hubVars, loopVars>>

EarlierProcessorEnds == EarlierEnds("processor")

EarlierMonitorEnds == EarlierEnds("monitor")

EarlierLearningEnds == EarlierEnds("learning")

\* start() and stop() called in any order on an agent that is given no
\* task: every task processor waits in its dequeue.
RestartNext ==
    \/ StartAnew
    \/ Stop
    \/ GetTimeout
    \/ MonitorBegin
    \/ MonitorRecord
    \/ LearnBegin
    \/ EarlierProcessorEnds
    \/ EarlierMonitorEnds
    \/ EarlierLearningEnds

RestartSpec == Init /\ [][RestartNext]_vars

(* ------------- learning_data near its limit of 1000 ------------------ *)
\* The agent after _record_performance has run n times, n within MaxRecords
\* of the limit; the value of the i-th sample is i
RingInit ==
    /\ \E n \in (MaxLearningData - MaxRecords)..MaxLearningData :
          learning_data = [i \in 1..n |-> [metric |-> "task_execution_time", value |-> i,
                                          context |-> "None"]]
    /\ status = "active"
    /\ task_queue = <<>>
    /\ tasks = <<>>
    /\ proc = ProcIdle
    /\ mon = MonIdle
    /\ learn = LearnIdle
    /\ redis_perf = [m \in MetricNames |-> {}]
    /\ task_result = [i \in 1..MaxTasks |-> {}]
    /\ earlier = NoEarlier
    /\ HubInit(FALSE)
    /\ now = 0

\* one more _record_performance call, for one of the metrics of the task
\* processor; its value is the number of the call
RingRecord ==
    /\ learning_data[Len(learning_data)].value < MaxLearningData + MaxRecords
    /\ \E metric \in {"task_execution_time", "task_failure_rate"} :
          RecordPerformance(metric, learning_data[Len(learning_data)].value + 1, "None")
    /\ UNCHANGED <<status, task_queue, tasks, proc, task_result, now, earlier, hubVars, loopVars>>

RingSpec == RingInit /\ [][RingRecord]_vars

\* The task processor with a store that may be out of reach when
\* _record_performance writes to it; the tasks are due.
StoreFaultNext ==
    \/ Start
    \/ Stop
    \/ AddTaskWith(TaskTypes, {{}}, MaxTasks)
    \/ Dequeue
    \/ GetTimeout
    \/ HandlerReturn(Results)
    \/ HandlerRaise
    \/ RecordExecutionTime
    \/ RecordExecutionTimeRaises
    \/ RecordFailure
    \/ RecordFailureRaises
    \/ ErrorSleepEnds

StoreFaultSpec == Init /\ [][StoreFaultNext]_vars

\* The scheduler with one task type and one value returned by process_task
\* (neither is read by the scheduling), for the liveness properties.
LiveNext ==
    \/ Tick
    \/ Start
    \/ Stop
    \/ AddTask(LiveTaskTypes)
    \/ ProcessorStep(LiveResults)

\* The event loop keeps running the task processor, and process_task ends.
LiveSpec == Init /\ [][LiveNext]_vars /\ WF_vars(ProcessorStep(LiveResults))

\* The scheduler given tasks of the lowest and the highest priority, with
\* and without scheduled_at.
MixedPriorities == {"LOW", "CRITICAL"}

PriorityNext ==
    \/ Tick
    \/ Start
    \/ Stop
    \/ AddTaskOf(LiveTaskTypes, MixedPriorities, ScheduleTimes, MaxTasks)
    \/ ProcessorStep(LiveResults)

PrioritySpec == Init /\ [][PriorityNext]_vars

\* LiveSpec, and the clock keeps advancing (up to MaxTime).
TimedLiveSpec == LiveSpec /\ WF_vars(Tick)

\* The agent with its three loops, tasks that are due and that process_task
\* completes, and start called again only when the monitor and the learning
\* loop have ended.
LearnNext ==
    \/ StartEnded
    \/ Stop
    \/ AddTaskWith(LiveTaskTypes, {{}}, MaxTasks)
    \/ Dequeue
    \/ GetTimeout
    \/ HandlerReturn(LiveResults)
    \/ RecordExecutionTime
    \/ ErrorSleepEnds
    \/ MonitorBegin
    \/ MonitorRecord
    \/ LearnBegin
    \/ LearnRecorded

LearnSpec == Init /\ [][LearnNext]_vars

\* The steps of the three loops in LearnNext.
LearnLoopStep ==
    \/ Dequeue
    \/ GetTimeout
    \/ HandlerReturn(LiveResults)
    \/ RecordExecutionTime
    \/ ErrorSleepEnds
    \/ MonitorBegin
    \/ MonitorRecord
    \/ LearnBegin
    \/ LearnRecorded

\* The event loop keeps running the three loops: every wait, sleep and
\* process_task call ends.
LearnLiveSpec == LearnSpec /\ WF_vars(LearnLoopStep)

\* The agent whose process_task always raises, with its task processor and
\* its monitor.  The agent stays ACTIVE, so the timeout of the dequeue on
\* an empty queue leads back to the same dequeue.
FailingNext ==
    \/ StartEnded
    \/ AddTaskWith(LiveTaskTypes, {{}}, MaxFailedTasks)
    \/ Dequeue
    \/ HandlerRaise
    \/ RecordFailure
    \/ ErrorSleepEnds
    \/ MonitorBegin
    \/ MonitorRecord

FailingSpec == Init /\ [][FailingNext]_vars

\* The agent with its task processor and its monitor, and tasks that
\* process_task completes or fails.  The agent stays ACTIVE.
MonitorNext ==
    \/ StartEnded
    \/ AddTaskWith(LiveTaskTypes, {{}}, MaxTasks)
    \/ Dequeue
    \/ HandlerReturn(LiveResults)
    \/ HandlerRaise
    \/ RecordExecutionTime
    \/ RecordFailure
    \/ ErrorSleepEnds
    \/ MonitorBegin
    \/ MonitorRecord

MonitorSpec == Init /\ [][MonitorNext]_vars

\* The steps of the monitor that the event loop runs when they are due.
MonitorStep ==
    \/ MonitorBegin
    \/ MonitorRecord
    \/ MonitorErrorSleepEnds

\* The agent with its monitor and a store whose writes can fail, without
\* tasks.
FaultNext ==
    \/ StartEnded
    \/ Stop
    \/ MonitorBegin
    \/ MonitorRecord
    \/ MonitorRaises
    \/ MonitorErrorSleepEnds

\* The event loop keeps running the monitor; a write to the store may fail
\* any number of times.
FaultSpec == Init /\ [][FaultNext]_vars /\ WF_vars(MonitorStep)

(* ========================= communication hub ========================== *)
\* datetime.isoformat() and datetime.fromisoformat()
IsoFormat(t) == [iso |-> t]
FromIsoFormat(str) == str.iso

\* send_message: asdict(message) with the datetimes and enums made JSON values
ToDict(m) ==
    [m EXCEPT !.expires_at = {IsoFormat(t) : t \in m.expires_at},
              !.message_type = MessageTypeValue[m.message_type],
              !.priority = MessagePriorityValue[m.priority]]

\* get_messages_for_agent / _process_kafka_message: the dict back to a CommunicationMessage
FromDict(d) ==
    [d EXCEPT !.expires_at = {FromIsoFormat(str) : str \in d.expires_at},
              !.message_type = CHOOSE n \in DOMAIN MessageTypeValue :
                                   MessageTypeValue[n] = d.message_type,
              !.priority = CHOOSE n \in DOMAIN MessagePriorityValue :
                                   MessagePriorityValue[n] = d.priority]

\* get_messages_for_agent is at its return statement: the instant at which
\* the list goes back to the caller, in which nothing else happens
Returning == recv.pc = "done"

\* ValidRecipient without the check of the active set
ValidRecipientAlways(m, active) == TRUE

\* send_message: the recipient is "all" or an active agent
ValidRecipient(m, active) == m.recipient_id = "all" \/ m.recipient_id \in active

\* _send_via_redis: lpush to the list of the recipient, of every active agent for "all"
SendViaRedis(d, active, stores) ==
    IF d.recipient_id = "all"
    THEN [a \in Agents |-> IF a \in active THEN <<d>> \o stores[a] ELSE stores[a]]
    ELSE [stores EXCEPT ![d.recipient_id] = <<d>> \o @]

\* OnKafkaError that only logs
OnKafkaErrorLogOnly(d, active, stores) == stores

\* send_message: except KafkaError, the fallback to Redis
OnKafkaError(d, active, stores) == SendViaRedis(d, active, stores)

\* message_history.append(...) followed by the trim to the last 500
AppendHistory(history, d) ==
    LET all == Append(history, d)
    IN  IF Len(all) > MaxHistory
        THEN SubSeq(all, Len(all) - KeepHistory + 1, Len(all))
        ELSE all

\* send_message(m) with the active set and the topic as they are at the call;
\* kafka is what kafka_producer.send / flush does when there is a producer
\* ("ok", or "error" for a KafkaError).
SendMessage(m, kafka, active, topic) ==
    LET d == ToDict(m)
        direct == m.recipient_id # "all" /\ m.sender_id \in Agents
    IN  /\ sent' = sent + 1
        /\ IF ~ValidRecipient(m, active)
           THEN /\ kafka_topic' = topic
                /\ UNCHANGED <<redis_messages, message_history, awaiting>>
                /\ last_send' = [uid |-> m.uid, recipient |-> m.recipient_id,
                                 ok |-> FALSE, kafka |-> "none"]
           ELSE /\ IF kafka_producer
                   THEN IF kafka = "ok"
                        THEN /\ kafka_topic' = Append(topic, d)
                             /\ redis_messages' = redis_messages
                        ELSE /\ kafka_topic' = topic
                             /\ redis_messages' = OnKafkaError(d, active, redis_messages)
                   ELSE /\ kafka_topic' = topic
                        /\ redis_messages' = SendViaRedis(d, active, redis_messages)
                /\ message_history' = AppendHistory(message_history, d)
                /\ last_send' = [uid |-> m.uid, recipient |-> m.recipient_id, ok |-> TRUE,
                                 kafka |-> IF kafka_producer THEN kafka ELSE "none"]
                \* bookkeeping for the claims: a message without expiry sent with
                \* success to one agent that is not in the middle of a Receive
                /\ awaiting' =
                     IF direct /\ m.expires_at = {}
                               /\ ~(recv.pc = "popping" /\ recv.agent = m.recipient_id)
                     THEN [awaiting EXCEPT ![m.recipient_id] = @ \cup {m.uid}]
                     ELSE awaiting

KafkaOutcomes == IF kafka_producer THEN {"ok", "error"} ELSE {"none"}

\* broadcast_message
BroadcastMessage(sender, type, content, prio, kafka, active, topic) ==
    SendMessage([CommunicationMessage(sent + 1, sender, "all", type, prio, {})
                    EXCEPT !.content = content],
                kafka, active, topic)

\* register_agent, while fewer than limit send_message calls were made
RegisterWithin(limit) ==
    /\ ~Returning
    /\ sent < limit
    /\ \E a \in Agents \ active_agents, kafka \in KafkaOutcomes :
          /\ active_agents' = active_agents \cup {a}
          /\ BroadcastMessage("communication_hub", "ALERT", EventContent("agent_registered", a),
                              "LOW", kafka, active_agents', kafka_topic)
    /\ UNCHANGED <<agentVars, storeVars, now, kafka_producer, redis_feedback, recv>>

\* register_agent
Register == RegisterWithin(MaxMessages)

\* unregister_agent, while fewer than limit send_message calls were made
UnregisterWithin(limit) ==
    /\ ~Returning
    /\ sent < limit
    /\ \E a \in active_agents, kafka \in KafkaOutcomes :
          /\ active_agents' = active_agents \ {a}
          /\ BroadcastMessage("communication_hub", "ALERT",
                              EventContent("agent_unregistered", a),
                              "LOW", kafka, active_agents', kafka_topic)
    /\ UNCHANGED <<agentVars, storeVars, now, kafka_producer, redis_feedback, recv>>

\* unregister_agent
Unregister == UnregisterWithin(MaxMessages)

\* send_message called by an active agent
Send ==
    /\ ~Returning
    /\ sent < MaxMessages
    /\ \E sender \in active_agents \cap Senders :
       \E recipient \in (Agents \ {sender}) \cup {"all"}, input \in SendInputs,
          kafka \in KafkaOutcomes :
          SendMessage(CommunicationMessage(sent + 1, sender, recipient, input[1], "MEDIUM",
                                           input[2]),
                      kafka, active_agents, kafka_topic)
    /\ UNCHANGED <<agentVars, storeVars, now, active_agents, kafka_producer, redis_feedback, recv>>

\* IsCrisis that also takes the alerts of the hub
IsCrisisOrAlert(message) == message.message_type \in {"CRISIS_NOTIFICATION", "ALERT"}

\* message.message_type == MessageType.CRISIS_NOTIFICATION
IsCrisis(message) == message.message_type = "CRISIS_NOTIFICATION"

\* _kafka_consumer_loop / _process_kafka_message on the next polled message,
\* while fewer than limit send_message calls were made
ConsumeWithin(limit) ==
    /\ ~Returning
    /\ kafka_producer
    /\ kafka_topic # <<>>
    /\ LET message == FromDict(Head(kafka_topic))
           polled == Tail(kafka_topic)
       IN  IF IsCrisis(message)
           THEN \* _handle_crisis_notification
                /\ sent < limit
                /\ \E kafka \in KafkaOutcomes :
                      BroadcastMessage("communication_hub", "ALERT", CrisisEscalation(message),
                                       "CRITICAL", kafka, active_agents, polled)
                /\ UNCHANGED redis_feedback
           ELSE /\ kafka_topic' = polled
                /\ redis_feedback' =
                     IF message.message_type = "PERFORMANCE_FEEDBACK"
                     THEN \* _handle_performance_feedback: lpush, ltrim 0 99
                          [redis_feedback EXCEPT ![message.sender_id] =
                              SubSeq(<<message.uid>> \o @, 1, Min(Len(@) + 1, FeedbackKept))]
                     ELSE redis_feedback
                /\ UNCHANGED <<redis_messages, message_history, sent, last_send, awaiting>>
    /\ UNCHANGED <<agentVars, storeVars, now, active_agents, kafka_producer, recv>>

\* _kafka_consumer_loop / _process_kafka_message on the next polled message
Consume == ConsumeWithin(MaxMessages)

\* Expired that never discards
ExpiredNever(message, t) == FALSE

\* data["expires_at"] and datetime.now() > data["expires_at"]
Expired(message, t) == \E e \in message.expires_at : t > e

\* get_messages_for_agent is called
BeginReceive ==
    /\ recv.pc = "idle"
    /\ \E a \in Agents :
          /\ recv' = [pc |-> "popping", agent |-> a, messages |-> <<>>, called_at |-> now,
                      returned_at |-> 0, snapshot |-> redis_messages[a],
                      expected |-> awaiting[a]]
          /\ awaiting' = [awaiting EXCEPT ![a] = {}]
    /\ UNCHANGED <<agentVars, storeVars, now, active_agents, kafka_producer, kafka_topic, redis_messages,
                   redis_feedback, message_history, sent, last_send>>

\* get_messages_for_agent: one rpop and what follows it
Pop ==
    /\ recv.pc = "popping"
    /\ LET list == redis_messages[recv.agent]
       IN  IF list = <<>>
           THEN /\ recv' = [recv EXCEPT !.pc = "done", !.returned_at = now]
                /\ redis_messages' = redis_messages
           ELSE LET message == FromDict(list[Len(list)])
                IN  /\ redis_messages' =
                         [redis_messages EXCEPT ![recv.agent] = SubSeq(list, 1, Len(list) - 1)]
                    /\ recv' = IF Expired(message, now)
                               THEN recv
                               ELSE [recv EXCEPT !.messages = Append(@, message)]
    /\ UNCHANGED <<agentVars, storeVars, now, active_agents, kafka_producer, kafka_topic,
                   redis_feedback, message_history, sent, last_send, awaiting>>

\* get_messages_for_agent has returned recv.messages to its caller
Return ==
    /\ recv.pc = "done"
    /\ recv' = RecvIdle
    /\ UNCHANGED <<agentVars, storeVars, now, active_agents, kafka_producer, kafka_topic, redis_messages,
                   redis_feedback, message_history, sent, last_send, awaiting>>

HubTick ==
    /\ ~Returning
    /\ now < MaxTime
    /\ now' = now + 1
    /\ UNCHANGED <<agentVars, hubVars>>

HubNext ==
    \/ HubTick
    \/ Register
    \/ Unregister
    \/ Send
    \/ Consume
    \/ BeginReceive
    \/ Pop
    \/ Return

HubSpecInit ==
    /\ AgentInit
    /\ \E kafka \in BOOLEAN : HubInit(kafka)
    /\ now = 0

HubSpec == HubSpecInit /\ [][HubNext]_vars

\* The hub with a consumer that can answer two crisis notifications.
CrisisNext ==
    \/ Register
    \/ Send
    \/ ConsumeWithin(MaxCrisisMessages)

CrisisSpec == HubSpecInit /\ [][CrisisNext]_vars

(* ========================= the event loop ============================= *)
\* The consumer loop is running between two awaits: the one thread of the
\* event loop is its own, and no other coroutine can take a step.
EventLoopHeld == consumer = "polling"

\* start_background_tasks: the periodic cleanup and the consumer loop are created
StartBackgroundTasks ==
    /\ ~EventLoopHeld
    /\ consumer = "idle"
    /\ consumer' = "created"
    /\ UNCHANGED <<agentVars, now, active_agents, kafka_producer, kafka_topic, redis_messages,
                   redis_feedback, message_history, recv, sent, last_send, awaiting,
                   cleanup, bcast, coord, share, inbox>>

\* _kafka_consumer_loop is run for the first time: it returns when there is
\* no consumer, and otherwise enters `while True` and calls
\* kafka_consumer.poll(timeout_ms=1000), a blocking call and not an await
ConsumerRun ==
    /\ consumer = "created"
    /\ consumer' = IF kafka_producer THEN "polling" ELSE "exited"
    /\ UNCHANGED <<agentVars, now, active_agents, kafka_producer, kafka_topic, redis_messages,
                   redis_feedback, message_history, recv, sent, last_send, awaiting,
                   cleanup, bcast, coord, share, inbox>>

\* _kafka_consumer_loop: poll returns a message and _process_kafka_message
\* handles it; then the next poll.  (A poll that returns nothing leads to
\* the next poll, with no await on the way.)
ConsumerPoll ==
    /\ consumer = "polling"
    /\ ConsumeWithin(MaxMessages)

\* The calls and the loops of the agent and of the hub that need the event loop.
LoopStart == ~EventLoopHeld /\ StartEnded
LoopAddTask == ~EventLoopHeld /\ AddTaskWith(LiveTaskTypes, {{}}, MaxTasks)
LoopRegister == ~EventLoopHeld /\ RegisterWithin(MaxMessages)
LoopProcessor ==
    /\ ~EventLoopHeld
    /\ \/ Dequeue
       \/ HandlerReturn(LiveResults)
       \/ RecordExecutionTime
       \/ ErrorSleepEnds

(* ========================== coordinate_task =========================== *)
\* f"coord_{int(datetime.now().timestamp())}"
CoordinationId(t) == "coord_" \o ToString(t)

\* coordinate_task: the message for one required agent
CoordinationMessage(uid, coordinator, agent, id) ==
    [CommunicationMessage(uid, coordinator, agent, "TASK_COORDINATION", "HIGH", {})
        EXCEPT !.requires_response = TRUE, !.correlation_id = id]

\* coordinate_task is called by an active agent: the id is made and the
\* message for the first required agent is sent
CoordinateBegin ==
    /\ ~Returning
    /\ coord.pc = "idle"
    /\ \E coordinator \in active_agents \cap Senders, required \in RequiredAgents,
          kafka \in KafkaOutcomes :
          /\ sent + Len(required) <= MaxMessages
          /\ LET id == CoordinationId(now)
             IN  /\ SendMessage(CoordinationMessage(sent + 1, coordinator, Head(required), id),
                                kafka, active_agents, kafka_topic)
                 /\ coord' = [pc |-> IF Tail(required) = <<>> THEN "idle" ELSE "sending",
                              coordination_id |-> id, coordinator_id |-> coordinator,
                              required_agents |-> required, todo |-> Tail(required)]
    /\ UNCHANGED <<agentVars, now, active_agents, kafka_producer, redis_feedback, recv,
                   cleanup, bcast, consumer, share, inbox>>

\* coordinate_task: the message for the next required agent; after the last
\* one the call returns coord.coordination_id
CoordinateNext ==
    /\ ~Returning
    /\ coord.pc = "sending"
    /\ \E kafka \in KafkaOutcomes :
          SendMessage(CoordinationMessage(sent + 1, coord.coordinator_id, Head(coord.todo),
                                          coord.coordination_id),
                      kafka, active_agents, kafka_topic)
    /\ coord' = [coord EXCEPT !.pc = IF Tail(coord.todo) = <<>> THEN "idle" ELSE "sending",
                              !.todo = Tail(@)]
    /\ UNCHANGED <<agentVars, now, active_agents, kafka_producer, redis_feedback, recv,
                   cleanup, bcast, consumer, share, inbox>>

\* The hub with coordinate_task as the only sender of direct messages.
CoordNext ==
    \/ HubTick
    \/ Register
    \/ Unregister
    \/ CoordinateBegin
    \/ CoordinateNext
    \/ Consume
    \/ BeginReceive
    \/ Pop
    \/ Return

CoordSpec == HubSpecInit /\ [][CoordNext]_vars

(* ========================== share_knowledge =========================== *)
\* Inputs of share_knowledge calls: target_agents, omitted (given = FALSE, the
\* default None) or a list; "C" is an agent that never registers
TargetAgents ==
    {[given |-> FALSE, list |-> <<>>], [given |-> TRUE, list |-> <<>>],
     [given |-> TRUE, list |-> <<"B">>], [given |-> TRUE, list |-> <<"A", "B", "C">>]}

\* list(self.active_agents): the elements of the set in one of its orders
ListOf(set) ==
    {list \in [1..Cardinality(set) -> set] : \A i, j \in DOMAIN list : list[i] = list[j] => i = j}

\* `target_agents or list(self.active_agents)`: None and the empty list are
\* both false
RecipientsOf(target_agents, active) ==
    IF target_agents.given /\ target_agents.list # <<>> THEN {target_agents.list}
    ELSE ListOf(active)

RECURSIVE SkipSelf(_, _)
\* `for agent_id in recipients: if agent_id != sender_id`: the part of the
\* list from the next agent that is sent to
SkipSelf(recipients, sender) ==
    IF recipients = <<>> THEN <<>>
    ELSE IF Head(recipients) = sender THEN SkipSelf(Tail(recipients), sender)
    ELSE recipients

\* share_knowledge: the message for one recipient
KnowledgeMessage(uid, sender, agent) ==
    [CommunicationMessage(uid, sender, agent, "KNOWLEDGE_SHARING", "MEDIUM", {})
        EXCEPT !.content = [NoContent EXCEPT !.source_agent = sender]]

\* what a share_knowledge call has passed to send_message: recipient, type, priority
SentTo(m) == [recipient_id |-> m.recipient_id, message_type |-> m.message_type,
              priority |-> m.priority]

\* share_knowledge is called by an active agent: the recipients are chosen
\* and the message for the first of them that is not the sender is sent
ShareBegin ==
    /\ ~Returning
    /\ share.pc = "idle"
    /\ \E sender \in active_agents, target_agents \in TargetAgents, kafka \in KafkaOutcomes :
       \E recipients \in RecipientsOf(target_agents, active_agents) :
          LET todo == SkipSelf(recipients, sender)
              call == [NoShare EXCEPT !.sender_id = sender, !.target_agents = target_agents,
                                      !.active = active_agents]
          IN  /\ sent + Len(todo) <= MaxShareMessages
              /\ IF todo = <<>>
                 THEN /\ share' = [call EXCEPT !.pc = "returned"]
                      /\ UNCHANGED <<kafka_topic, redis_messages, message_history, sent,
                                     last_send, awaiting>>
                 ELSE LET m == KnowledgeMessage(sent + 1, sender, Head(todo))
                          rest == SkipSelf(Tail(todo), sender)
                      IN  /\ SendMessage(m, kafka, active_agents, kafka_topic)
                          /\ share' = [call EXCEPT !.pc = IF rest = <<>> THEN "returned"
                                                           ELSE "sending",
                                                   !.todo = rest, !.messages = <<SentTo(m)>>]
    /\ UNCHANGED <<agentVars, now, active_agents, kafka_producer, redis_feedback, recv,
                   cleanup, bcast, coord, consumer, inbox>>

\* share_knowledge: the message for the next recipient; after the last one
\* the call returns
ShareNext ==
    /\ ~Returning
    /\ share.pc = "sending"
    /\ LET m == KnowledgeMessage(sent + 1, share.sender_id, Head(share.todo))
           rest == SkipSelf(Tail(share.todo), share.sender_id)
       IN  /\ \E kafka \in KafkaOutcomes : SendMessage(m, kafka, active_agents, kafka_topic)
           /\ share' = [share EXCEPT !.pc = IF rest = <<>> THEN "returned" ELSE "sending",
                                     !.todo = rest, !.messages = Append(@, SentTo(m))]
    /\ UNCHANGED <<agentVars, now, active_agents, kafka_producer, redis_feedback, recv,
                   cleanup, bcast, coord, consumer, inbox>>

\* The caller of share_knowledge has its result; the next call can be made
ShareReturn ==
    /\ share.pc = "returned"
    /\ share' = NoShare
    /\ UNCHANGED <<agentVars, now, active_agents, kafka_producer, kafka_topic, redis_messages,
                   redis_feedback, message_history, recv, sent, last_send, awaiting,
                   cleanup, bcast, coord, consumer, inbox>>

\* The hub with share_knowledge as the only sender of direct messages.
ShareNextState ==
    \/ RegisterWithin(MaxShareMessages)
    \/ UnregisterWithin(MaxShareMessages)
    \/ ShareBegin
    \/ ShareNext
    \/ ShareReturn
    \/ ConsumeWithin(MaxShareMessages)

ShareSpec == HubSpecInit /\ [][ShareNextState]_vars

(* ============== message store: cleanup_expired_messages =============== *)
RECURSIVE Reverse(_)
Reverse(list) == IF list = <<>> THEN <<>> ELSE Append(Reverse(Tail(list)), Head(list))

RECURSIVE SelectValid(_, _)
\* cleanup_expired_messages: the elements of the lrange reply that are kept
SelectValid(messages, t) ==
    IF messages = <<>> THEN <<>>
    ELSE IF \E str \in Head(messages).expires_at : t > FromIsoFormat(str)
         THEN SelectValid(Tail(messages), t)
         ELSE <<Head(messages)>> \o SelectValid(Tail(messages), t)

\* LPUSH key v1: only the first of the values is pushed
LPushFirst(list, values) == <<Head(values)>> \o list

\* LPUSH key v1 ... vn: each value in turn goes to the head of the list
LPushAll(list, values) == Reverse(values) \o list

\* cleanup_expired_messages is called: current_time is read, the loop over
\* active_agents begins
CleanupBegin ==
    /\ ~Returning
    /\ cleanup.pc = "idle"
    /\ active_agents # {}
    /\ cleanup' = [CleanupIdle EXCEPT !.pc = "next", !.current_time = now,
                                      !.size = Cardinality(active_agents),
                                      !.todo = active_agents]
    /\ UNCHANGED <<agentVars, now, active_agents, kafka_producer, kafka_topic, redis_messages,
                   redis_feedback, message_history, recv, sent, last_send, awaiting, bcast, coord,
                   consumer, share, inbox>>

\* the next agent of the loop and its lrange; the iterator of the set raises
\* RuntimeError when the size of active_agents has changed, which ends the
\* call in the handler of _periodic_cleanup
CleanupScan ==
    /\ ~Returning
    /\ cleanup.pc = "next"
    /\ IF Cardinality(active_agents) # cleanup.size \/ cleanup.todo \cap active_agents = {}
       THEN cleanup' = CleanupIdle
       ELSE \E a \in cleanup.todo \cap active_agents :
               LET messages == redis_messages[a]
                   valid_messages == SelectValid(messages, cleanup.current_time)
               IN  cleanup' =
                     IF Len(valid_messages) # Len(messages)
                     THEN [cleanup EXCEPT !.pc = "delete", !.agent = a,
                                          !.todo = @ \ {a}, !.messages = messages,
                                          !.valid_messages = valid_messages]
                     ELSE [cleanup EXCEPT !.todo = @ \ {a}, !.messages = messages]
    /\ UNCHANGED <<agentVars, now, active_agents, kafka_producer, kafka_topic, redis_messages,
                   redis_feedback, message_history, recv, sent, last_send, awaiting, bcast, coord,
                   consumer, share, inbox>>

\* redis_client.delete(key)
CleanupDelete ==
    /\ ~Returning
    /\ cleanup.pc = "delete"
    /\ redis_messages' = [redis_messages EXCEPT ![cleanup.agent] = <<>>]
    /\ cleanup' = IF cleanup.valid_messages # <<>>
                  THEN [cleanup EXCEPT !.pc = "push"]
                  ELSE [cleanup EXCEPT !.pc = "next", !.agent = "None"]
    /\ UNCHANGED <<agentVars, now, active_agents, kafka_producer, kafka_topic,
                   redis_feedback, message_history, recv, sent, last_send, awaiting, bcast, coord,
                   consumer, share, inbox>>

\* redis_client.lpush(key, *valid_messages)
CleanupPush ==
    /\ ~Returning
    /\ cleanup.pc = "push"
    /\ redis_messages' = [redis_messages EXCEPT
                             ![cleanup.agent] = LPushAll(@, cleanup.valid_messages)]
    /\ cleanup' = [cleanup EXCEPT !.pc = "next", !.agent = "None", !.valid_messages = <<>>]
    /\ UNCHANGED <<agentVars, now, active_agents, kafka_producer, kafka_topic,
                   redis_feedback, message_history, recv, sent, last_send, awaiting, bcast, coord,
                   consumer, share, inbox>>

StoreSpecInit ==
    /\ AgentInit
    /\ HubInit(FALSE)
    /\ now = 0

(* ============ message store: the loop of _send_via_redis ============== *)
\* send_alert by an active agent on the store path: broadcast_message,
\* send_message and _send_via_redis run up to the first lpush of the loop
\* over active_agents
BroadcastBegin ==
    /\ ~Returning
    /\ sent < MaxBroadcastMessages
    /\ bcast.pc = "idle"
    /\ ~kafka_producer
    /\ \E sender \in active_agents \cap Senders : \E a \in active_agents :
          LET d == ToDict(CommunicationMessage(sent + 1, sender, "all", "ALERT", "HIGH", {}))
          IN  /\ redis_messages' = [redis_messages EXCEPT ![a] = <<d>> \o @]
              /\ bcast' = [pc |-> "pushing", message |-> d,
                           size |-> Cardinality(active_agents),
                           start |-> active_agents, visited |-> {a}]
    /\ sent' = sent + 1
    /\ UNCHANGED <<agentVars, now, active_agents, kafka_producer, kafka_topic, redis_feedback,
                   message_history, recv, last_send, awaiting, cleanup, coord, consumer, share, inbox>>

\* the lpush has completed and the loop asks the iterator of active_agents
\* for the next agent: RuntimeError when the size of the set has changed
\* (send_message catches it and returns False), the next lpush, or the end
\* of the loop (history, return True).  When the set has changed without
\* changing size the iterator may also stop early.
BroadcastNext ==
    /\ ~Returning
    /\ bcast.pc = "pushing"
    /\ LET d == bcast.message
           candidates == active_agents \ bcast.visited
           finished(ok) ==
               /\ bcast' = NoBroadcast
               /\ redis_messages' = redis_messages
               /\ message_history' = IF ok THEN AppendHistory(message_history, d)
                                           ELSE message_history
               /\ last_send' = [uid |-> d.uid, recipient |-> "all", ok |-> ok,
                                kafka |-> "none"]
       IN  IF Cardinality(active_agents) # bcast.size
           THEN finished(FALSE)
           ELSE \/ /\ candidates = {} \/ active_agents # bcast.start
                   /\ finished(TRUE)
                \/ \E a \in candidates :
                      /\ redis_messages' = [redis_messages EXCEPT ![a] = <<d>> \o @]
                      /\ bcast' = [bcast EXCEPT !.visited = @ \cup {a}]
                      /\ UNCHANGED <<message_history, last_send>>
    /\ UNCHANGED <<agentVars, now, active_agents, kafka_producer, kafka_topic, redis_feedback,
                   recv, sent, awaiting, cleanup, coord, consumer, share, inbox>>

\* The hub without a Kafka producer, with a broadcast that other calls interleave.
BroadcastNextState ==
    \/ RegisterWithin(MaxBroadcastMessages)
    \/ UnregisterWithin(MaxBroadcastMessages)
    \/ BroadcastBegin
    \/ BroadcastNext
    \/ BeginReceive
    \/ Pop
    \/ Return

BroadcastSpec == StoreSpecInit /\ [][BroadcastNextState]_vars

\* The hub without a Kafka producer, with its periodic cleanup.
StoreNext ==
    \/ HubTick
    \/ Register
    \/ Unregister
    \/ Send
    \/ BeginReceive
    \/ Pop
    \/ Return
    \/ CleanupBegin
    \/ CleanupScan
    \/ CleanupDelete
    \/ CleanupPush

StoreSpec == StoreSpecInit /\ [][StoreNext]_vars

(* ============ BaseAgent.receive_messages / process_messages ============ *)
\* the fields of the dataclass AgentMessage (uid stands for id)
AgentMessageFields ==
    {"uid", "sender_id", "recipient_id", "message_type", "content", "timestamp", "priority"}

\* the values of TaskPriority
TaskPriorityValues == {1, 2, 3, 4}

\* the message types the content strategist registers a handler for
MessageHandlers == {"content_request", "trend_update", "performance_feedback"}

\* the message types of the entries written by peers: one with a handler, one without
PeerTypes == {"performance_feedback", "campaign_update"}

\* the agents whose process_messages calls are enumerated
InboxAgents == {"B"}

\* what `await handler(message)` does
HandlerOutcomes == {"returned", "raised"}

\* the uid of the n-th entry written by a peer, apart from the hub's
PeerUid(n) == MaxMessages + n

\* a store entry in the form receive_messages parses: the JSON of an
\* AgentMessage with its timestamp as a string and its priority as a number
AgentMessageJson(uid, sender, recipient, type) ==
    [uid |-> uid, sender_id |-> sender, recipient_id |-> recipient, message_type |-> type,
     content |-> NoContent, timestamp |-> IsoFormat(0), priority |-> 2]

\* receive_messages: TaskPriority(data["priority"]) raises ValueError on a
\* value that is no priority, AgentMessage(**data) raises TypeError on a key
\* that is no field.  (The timestamp of a hub entry, left out of
\* CommunicationMessage, is an ISO string and parses.)
ParseRaises(d) ==
    \/ DOMAIN d \ AgentMessageFields # {}
    \/ d.priority \notin TaskPriorityValues

\* OnHandlerError that lets the exception leave process_messages
OnHandlerErrorAbort(next) == "failed"

\* process_messages: `except Exception` around the handler call logs the
\* error; the loop goes on
OnHandlerError(next) == next

\* A client of the store pushes an entry in the AgentMessage form to the
\* list of an agent.
PeerPush ==
    /\ inbox.pushed < MaxInboxMessages
    /\ \E a \in InboxAgents, type \in PeerTypes : \E sender \in Senders \ {a} :
          redis_messages' =
              [redis_messages EXCEPT
                  ![a] = <<AgentMessageJson(PeerUid(inbox.pushed + 1), sender, a, type)>> \o @]
    /\ inbox' = [inbox EXCEPT !.pushed = @ + 1]
    /\ UNCHANGED <<agentVars, now, active_agents, kafka_producer, kafka_topic,
                   redis_feedback, message_history, recv, sent, last_send, awaiting,
                   cleanup, bcast, coord, consumer, share>>

\* process_messages is called by agent a and calls receive_messages
ProcessMessages ==
    /\ inbox.pc = "idle"
    /\ \E a \in InboxAgents : inbox' = [NoInbox EXCEPT !.pc = "popping", !.agent = a,
                                                  !.pushed = inbox.pushed]
    /\ UNCHANGED <<agentVars, now, active_agents, kafka_producer, kafka_topic, redis_messages,
                   redis_feedback, message_history, recv, sent, last_send, awaiting,
                   cleanup, bcast, coord, consumer, share>>

\* receive_messages: one rpop and what follows it; an entry that does not
\* parse is logged and left out, and the empty reply ends the loop
ReceivePop ==
    /\ inbox.pc = "popping"
    /\ LET list == redis_messages[inbox.agent]
       IN  IF list = <<>>
           THEN /\ inbox' = [inbox EXCEPT !.pc = IF inbox.messages = <<>> THEN "returned"
                                                  ELSE "dispatch",
                                          !.idx = 1]
                /\ redis_messages' = redis_messages
           ELSE LET data == list[Len(list)]
                IN  /\ redis_messages' =
                         [redis_messages EXCEPT ![inbox.agent] = SubSeq(list, 1, Len(list) - 1)]
                    /\ inbox' = IF ParseRaises(data)
                                THEN inbox
                                ELSE [inbox EXCEPT !.messages = Append(@, data)]
    /\ UNCHANGED <<agentVars, now, active_agents, kafka_producer, kafka_topic,
                   redis_feedback, message_history, recv, sent, last_send, awaiting,
                   cleanup, bcast, coord, consumer, share>>

\* process_messages: the next message of the batch; its handler is looked
\* up and awaited, or the missing handler is logged
Dispatch ==
    /\ inbox.pc = "dispatch"
    /\ LET message == inbox.messages[inbox.idx]
           next == IF inbox.idx = Len(inbox.messages) THEN "returned" ELSE "dispatch"
           done(outcome, pc) ==
               inbox' = [inbox EXCEPT !.pc = pc, !.idx = @ + 1,
                                      !.handled = Append(@, [uid |-> message.uid,
                                                             outcome |-> outcome])]
       IN  IF message.message_type \in MessageHandlers
           THEN \E outcome \in HandlerOutcomes :
                   done(outcome, IF outcome = "raised" THEN OnHandlerError(next) ELSE next)
           ELSE done("no_handler", next)
    /\ UNCHANGED <<agentVars, now, active_agents, kafka_producer, kafka_topic, redis_messages,
                   redis_feedback, message_history, recv, sent, last_send, awaiting,
                   cleanup, bcast, coord, consumer, share>>

\* process_messages has returned (or raised) to its caller
ProcessReturn ==
    /\ inbox.pc \in {"returned", "failed"}
    /\ inbox' = [NoInbox EXCEPT !.pushed = inbox.pushed]
    /\ UNCHANGED <<agentVars, now, active_agents, kafka_producer, kafka_topic, redis_messages,
                   redis_feedback, message_history, recv, sent, last_send, awaiting,
                   cleanup, bcast, coord, consumer, share>>

\* The store of the hub without Kafka, written by the hub and by peers and
\* read by the agents' process_messages.
InboxNext ==
    \/ Register
    \/ Send
    \/ PeerPush
    \/ ProcessMessages
    \/ ReceivePop
    \/ Dispatch
    \/ ProcessReturn

InboxSpec == StoreSpecInit /\ [][InboxNext]_vars

\* The store while no send_message and no get_messages_for_agent call runs
\* beside a cleanup_expired_messages call: the stores are filled, the clock
\* advances, and the calls of cleanup_expired_messages run alone.
QuietRegister == cleanup.pc = "idle" /\ Register
QuietUnregister == cleanup.pc = "idle" /\ Unregister
QuietSend == cleanup.pc = "idle" /\ Send

QuietNext ==
    \/ HubTick
    \/ QuietRegister
    \/ QuietUnregister
    \/ QuietSend
    \/ CleanupBegin
    \/ CleanupScan
    \/ CleanupDelete
    \/ CleanupPush

QuietSpec == StoreSpecInit /\ [][QuietNext]_vars

\* _periodic_cleanup, created by start_background_tasks: a
\* cleanup_expired_messages call after each sleep
LoopCleanup ==
    /\ ~EventLoopHeld
    /\ consumer # "idle"
    /\ \/ CleanupBegin
       \/ CleanupScan

\* The agent and the hub on one event loop (src/main.py): the task processor
\* of the agent, the registration of agents, and the two background loops of
\* the hub.  No message is sent but the registration events.
LoopNext ==
    \/ LoopStart
    \/ LoopAddTask
    \/ LoopRegister
    \/ LoopProcessor
    \/ LoopCleanup
    \/ StartBackgroundTasks
    \/ ConsumerRun
    \/ ConsumerPoll

\* The event loop runs every coroutine that is ready, and process_task ends.
LoopSpec ==
    /\ HubSpecInit
    /\ [][LoopNext]_vars
    /\ WF_vars(LoopProcessor)
    /\ WF_vars(LoopCleanup)
    /\ WF_vars(ConsumerRun)
    /\ WF_vars(ConsumerPoll)

(* ======================= claims: task scheduler ======================= *)
TaskIds == 1..Len(tasks)

\* The task processor is running its loop.
ProcessorAlive == proc.pc \notin {"idle", "exited"}

\* process_task has run for task i and the task processor is done with it.
Finished(i) == tasks[i].handler.kind # "none" /\ proc.task # i

InQueue(i) == \E k \in 1..Len(task_queue) : task_queue[k] = i

SamplesOf(metric, type) ==
    {k \in 1..Len(learning_data) :
        learning_data[k].metric = metric /\ learning_data[k].context = type}

FinishedOf(kind, type) ==
    {i \in TaskIds : Finished(i) /\ tasks[i].handler.kind = kind /\ tasks[i].task_type = type}

\* C1: a task with scheduled_at set never has process_task entered at a
\* clock reading earlier than scheduled_at.
C1_NeverStartedEarly ==
    \A i \in TaskIds : \A k \in 1..Len(tasks[i].started) : \A s \in tasks[i].scheduled_at :
        tasks[i].started[k] >= s

\* A task that was deferred at least once and then entered process_task.
C1_Witness ==
    \E i \in TaskIds : tasks[i].deferred /\ tasks[i].started # <<>>

\* C2: when process_task raises, the task is 'failed' with the error kept,
\* one task_failure_rate sample of value 1 with its task_type is recorded once
\* the processor is done with it, the loop ends only at a condition check that
\* sees a status other than ACTIVE, and a due task waiting in the queue is
\* executed afterwards while the agent stays ACTIVE.
C2_FailedState ==
    /\ \A i \in TaskIds :
          tasks[i].handler.kind = "raised" =>
              /\ tasks[i].status = "failed"
              /\ tasks[i].error = tasks[i].handler.value
              /\ tasks[i].error \in Errors
    /\ \A type \in TaskTypes :
          Cardinality({k \in SamplesOf("task_failure_rate", type) : learning_data[k].value = 1})
              = Cardinality(FinishedOf("raised", type))

C2_LoopExit == proc.pc # "exited" /\ proc'.pc = "exited" => status # "active"

C2_NextAfterFailure(i, j) ==
    (/\ i \in TaskIds /\ j \in TaskIds
     /\ tasks[i].handler.kind = "raised"
     /\ InQueue(j) /\ ~NotYetDue(tasks[j], now)
     /\ status = "active" /\ ProcessorAlive)
    ~> (\/ j \in TaskIds /\ tasks[j].started # <<>>
        \/ status # "active")

C2_HandlerFailureContained ==
    /\ []C2_FailedState
    /\ [][C2_LoopExit]_vars
    /\ \A i \in 1..MaxTasks : \A j \in 1..MaxTasks : C2_NextAfterFailure(i, j)

\* A task whose handler raised is done with, and a task submitted after it
\* has entered process_task.
C2_Witness ==
    \E i \in TaskIds : \E j \in TaskIds :
        /\ i < j
        /\ tasks[i].handler.kind = "raised" /\ Finished(i)
        /\ tasks[j].started # <<>>
        /\ tasks[j].started[1] >= tasks[i].started[1]
        /\ task_queue = <<>>

C4_PersistedBeforeNextDequeue ==
    \A i \in TaskIds :
        (/\ tasks[i].handler.kind # "none"
         /\ proc.task # 0 /\ proc.task # i)
        => task_result[i] = {tasks[i]}

\* C5: a due task waiting in the queue behind a not-yet-due task is executed
\* while the agent stays ACTIVE, however slowly the clock advances; the
\* deferred task goes back to the tail of the queue.
C5_RequeuedAtTail ==
    proc.pc = "defer_sleep" /\ proc'.pc # "defer_sleep"
        => task_queue' = Append(task_queue, proc.task)

C5_DueBehindNotDue(i, j) ==
    (/\ i \in TaskIds /\ j \in TaskIds
     /\ \E a \in 1..Len(task_queue) : \E b \in 1..Len(task_queue) :
           a < b /\ task_queue[a] = i /\ task_queue[b] = j
     /\ NotYetDue(tasks[i], now) /\ ~NotYetDue(tasks[j], now)
     /\ status = "active" /\ ProcessorAlive)
    ~> (\/ j \in TaskIds /\ tasks[j].started # <<>>
        \/ status # "active")

C5_NoHeadBlocking ==
    /\ [][C5_RequeuedAtTail]_vars
    /\ \A i \in 1..MaxTasks : \A j \in 1..MaxTasks : C5_DueBehindNotDue(i, j)

\* A task submitted behind a not-yet-due one has entered process_task while
\* the earlier one, deferred, is still not due.
C5_Witness ==
    \E i \in TaskIds : \E j \in TaskIds :
        /\ i < j
        /\ tasks[i].deferred /\ NotYetDue(tasks[i], now) /\ tasks[i].started = <<>>
        /\ tasks[j].started # <<>>

\* C6: a task that is not yet due stays pending, in the queue or held by the
\* sleeping task processor; while the agent stays ACTIVE and the clock
\* advances it reaches 'completed' or 'failed'.
C6_DeferredKept ==
    \A i \in TaskIds :
        tasks[i].started = <<>> =>
            /\ tasks[i].status = "pending"
            /\ Cardinality({k \in 1..Len(task_queue) : task_queue[k] = i})
                 + (IF proc.task = i THEN 1 ELSE 0) = 1

C6_EventuallyDone(i) ==
    (/\ i \in TaskIds
     /\ NotYetDue(tasks[i], now)
     /\ status = "active" /\ ProcessorAlive)
    ~> (\/ i \in TaskIds /\ tasks[i].status \in {"completed", "failed"}
        \/ status # "active")

C6_DeferredThenExecuted ==
    /\ []C6_DeferredKept
    /\ \A i \in 1..MaxTasks : C6_EventuallyDone(i)

\* A task that was deferred has reached a final status at or after scheduled_at.
C6_Witness ==
    \E i \in TaskIds :
        /\ tasks[i].deferred
        /\ tasks[i].status \in {"completed", "failed"}
        /\ \A s \in tasks[i].scheduled_at : now >= s

(* ====================== claims: communication hub ===================== *)
\* The agents a send_message call with this recipient writes to on the store path.
Targets(recipient, active) == IF recipient = "all" THEN active ELSE {recipient}

Uids(list) == {list[k].uid : k \in 1..Len(list)}

\* C7: a send_message call whose recipient is neither "all" nor an active
\* agent returns False and leaves the topic, the lists of the store and the
\* history as they were.
C7_InvalidRecipientRejected ==
    [][(sent' = sent + 1 /\ last_send'.recipient \notin active_agents' \cup {"all"})
          => /\ last_send'.ok = FALSE
             /\ UNCHANGED <<kafka_topic, redis_messages, redis_feedback, message_history,
                            active_agents>>]_vars

\* The last send_message call was addressed to an agent that was not active,
\* after calls that were accepted.
C7_Witness ==
    /\ last_send.uid = sent
    /\ last_send.recipient \in Agents \ active_agents
    /\ last_send.ok = FALSE
    /\ message_history # <<>>

\* C8: when get_messages_for_agent returns to B, every message without expiry
\* that an active agent sent to B with success since B's last call is in the
\* returned list, with that agent as sender_id.
C8_SentIsReceived ==
    recv.pc = "done" =>
        \A u \in recv.expected :
            \E k \in 1..Len(recv.messages) :
                /\ recv.messages[k].uid = u
                /\ recv.messages[k].sender_id \in Senders

C10_NoExpiredReturned ==
    /\ \A k \in 1..Len(recv.messages) :
          \A e \in recv.messages[k].expires_at : e >= recv.called_at
    /\ recv.pc = "done" =>
          \A k \in 1..Len(recv.snapshot) :
              LET message == FromDict(recv.snapshot[k])
              IN  /\ message.uid \notin Uids(redis_messages[recv.agent])
                  /\ Expired(message, recv.called_at) => message.uid \notin Uids(recv.messages)
                  /\ ~Expired(message, recv.returned_at) =>
                        \E j \in 1..Len(recv.messages) : recv.messages[j] = message

\* get_messages_for_agent returns two messages that had a message already
\* expired at the call between them in the list.
C10_Witness ==
    /\ recv.pc = "done"
    /\ Len(recv.messages) = 2
    /\ \E k1 \in 1..Len(recv.snapshot) : \E k2 \in 1..Len(recv.snapshot) :
       \E k3 \in 1..Len(recv.snapshot) :
          /\ k1 < k2 /\ k2 < k3
          /\ Expired(FromDict(recv.snapshot[k2]), recv.called_at)
          /\ FromDict(recv.snapshot[k1]).uid \in Uids(recv.messages)
          /\ FromDict(recv.snapshot[k3]).uid \in Uids(recv.messages)

\* A step of the consumer loop: the head of the topic is polled (a crisis
\* notification puts the alert it broadcasts at the end).
ConsumerStep ==
    /\ kafka_topic' # kafka_topic
    /\ Len(kafka_topic') <= Len(kafka_topic)

\* The polled message is of a type _process_kafka_message hands to a handler.
HandedToHandler(message) ==
    message.message_type \in {"CRISIS_NOTIFICATION", "PERFORMANCE_FEEDBACK"}

\* C11: a message the consumer loop hands to the crisis or the
\* performance-feedback handler is not expired at that moment.
C11_NoExpiredHandled ==
    [][(ConsumerStep /\ HandedToHandler(FromDict(Head(kafka_topic))))
          => ~Expired(FromDict(Head(kafka_topic)), now)]_vars

\* C12: the list get_messages_for_agent builds is in the order in which the
\* messages were pushed to the store of the agent (message ids grow with
\* the pushes).
C12_ReturnedInPushOrder ==
    \A i \in 1..Len(recv.messages) : \A j \in 1..Len(recv.messages) :
        i < j => recv.messages[i].uid <= recv.messages[j].uid

\* C13: the list get_messages_for_agent builds holds no message twice.
C13_ConsumedAtMostOnce ==
    \A i \in 1..Len(recv.messages) : \A j \in 1..Len(recv.messages) :
        i # j => recv.messages[i].uid # recv.messages[j].uid

\* C14: when a broadcast on the store path ends, the agents it wrote a copy
\* to are exactly the agents that were active when it was called.
C14_OneCopyPerActiveAgent ==
    [][(bcast.pc = "pushing" /\ bcast'.pc = "idle") => bcast.visited = bcast.start]_vars

\* C15: when get_messages_for_agent returns to an agent, every coordination
\* message sent to it with success since its last call is in the returned
\* list, HIGH, with requires_response set, from the coordinator and with a
\* correlation id.
C15_CoordinationReceived ==
    recv.pc = "done" =>
        \A k \in 1..Len(message_history) :
            (/\ message_history[k].uid \in recv.expected
             /\ message_history[k].message_type = MessageTypeValue["TASK_COORDINATION"])
            => \E j \in 1..Len(recv.messages) :
                  /\ recv.messages[j] = FromDict(message_history[k])
                  /\ recv.messages[j].priority = "HIGH"
                  /\ recv.messages[j].requires_response
                  /\ recv.messages[j].sender_id \in Senders
                  /\ recv.messages[j].correlation_id # "None"

\* The crisis alerts among the messages sent with success.
Escalations(history) ==
    {k \in 1..Len(history) : history[k].content.alert_type = "crisis_escalation"}

\* The consumer polls a crisis notification.
CrisisPolled ==
    /\ ConsumerStep
    /\ FromDict(Head(kafka_topic)).message_type = "CRISIS_NOTIFICATION"

\* C16: the consumer answers each crisis notification it polls with one
\* broadcast, a CRITICAL alert of the hub to "all" that carries the content
\* and the sender of the notification; no other step broadcasts a crisis
\* alert, the poll of such an alert included.
C16_OneAlertPerCrisis ==
    [][IF CrisisPolled
       THEN LET notification == FromDict(Head(kafka_topic))
                alert == FromDict(message_history'[Len(message_history')])
            IN  /\ sent' = sent + 1
                /\ last_send'.ok
                /\ Len(message_history') = Len(message_history) + 1
                /\ alert.uid = sent'
                /\ alert.message_type = "ALERT"
                /\ alert.priority = "CRITICAL"
                /\ alert.recipient_id = "all"
                /\ alert.sender_id = "communication_hub"
                /\ alert.content.alert_type = "crisis_escalation"
                /\ alert.content.original_message = notification.content.body
                /\ alert.content.source_agent = notification.sender_id
       ELSE /\ Escalations(message_history') = Escalations(message_history)
            /\ ConsumerStep => sent' = sent]_vars

\* Two crisis notifications were answered with two alerts, and the consumer
\* has polled the last alert from the topic without a further broadcast.
C16_Witness ==
    /\ Cardinality(Escalations(message_history)) = 2
    /\ Len(message_history) \in Escalations(message_history)
    /\ last_send.uid = sent
    /\ last_send.kafka = "ok"
    /\ kafka_topic = <<>>

\* A step in which performance_model.fit returns: _update_models goes on to
\* record model_mse.
Refitted == learn.pc = "top" /\ learn'.pc = "record_mse"

\* C17: the status is LEARNING only while the learning loop is inside
\* _update_models, and when _update_models is left the status is ACTIVE.
C17_NeverStuckLearning ==
    /\ [](status = "learning" => learn.pc = "record_mse")
    /\ [][(learn.pc = "record_mse" /\ learn'.pc # "record_mse") => status' = "active"]_vars

\* A retraining has ended (its model_mse sample is recorded), the learning
\* loop sleeps and the agent is ACTIVE.
C17_Witness ==
    /\ \E k \in 1..Len(learning_data) : learning_data[k].metric = "model_mse"
    /\ learn.pc = "top"
    /\ status = "active"

\* C18: a step sets the status to LEARNING, or refits the model, only with
\* at least LearningBatchSize samples accumulated; the model_mse samples
\* are therefore never more than the samples beyond the batch size.
C18_TrainsOnlyOnFullBatch ==
    [][((status # "learning" /\ status' = "learning") \/ Refitted)
          => Len(learning_data) >= LearningBatchSize]_vars

\* The learning loop has slept through a cycle with fewer samples than the
\* batch size, and retrains in a later one.
C18_Witness ==
    /\ status = "learning"
    /\ learn.pc = "record_mse"
    /\ Len(learning_data) >= LearningBatchSize
    /\ \A k \in 1..Len(learning_data) : learning_data[k].metric # "model_mse"

\* C19: the model is refitted only when at least ten of the samples are
\* trainable.
C19_RefitNeedsTenTrainable ==
    [][Refitted => Cardinality(Trainable(learning_data)) >= MinLearningData]_vars

\* The monitor has ended a cycle that it began after the failure of
\* MaxFailedTasks tasks, all the tasks there are: the last three samples are
\* those of the cycle, collected when all the earlier ones were recorded.
CycleAfterFailures ==
    LET n == Len(learning_data)
    IN  /\ Len(tasks) = MaxFailedTasks
        /\ \A i \in 1..Len(tasks) : tasks[i].status = "failed"
        /\ Len(ValuesOf(learning_data, "task_failure_rate")) = MaxFailedTasks
        /\ mon.pc = "top"
        /\ n >= MaxFailedTasks + Len(MonitorMetrics)
        /\ \A i \in 1..Len(MonitorMetrics) :
              learning_data[n - Len(MonitorMetrics) + i].metric = MonitorMetrics[i]
        /\ learning_data[n - 1].value = n - Len(MonitorMetrics)

\* C20: the cycle of the monitor that follows the failure of MaxFailedTasks
\* tasks flags task_failure_rate.
C20_FailuresFlagged == CycleAfterFailures => "task_failure_rate" \in mon.flagged

\* The monitor ends a cycle: _check_performance_thresholds has run.
CycleEnds == mon.pc = "record" /\ mon'.pc = "top"

\* The last n elements of a sequence (all of them if there are fewer).
LastOf(values, n) ==
    SubSeq(values, IF Len(values) > n THEN Len(values) - n + 1 ELSE 1, Len(values))

\* The metric has samples and the mean of its ten most recent ones is below
\* its threshold.
RecentMeanBelow(ld, m) ==
    LET own == LastOf(ValuesOf(ld, m), RecentWindow)
    IN  own # <<>> /\ MeanBelow(own, PerformanceThresholds[m])

\* C21: at the end of each monitor cycle a metric with a threshold is flagged
\* exactly when the mean of its own ten most recent samples is below the
\* threshold.
C21_FlaggedOnOwnSamples ==
    [][CycleEnds =>
          \A m \in DOMAIN PerformanceThresholds :
              m \in mon'.flagged <=> RecentMeanBelow(learning_data', m)]_vars

\* No further monitor cycle is begun in the model: the samples are at MaxSamples.
SamplesCapped == Len(learning_data) + Len(MonitorMetrics) > MaxSamples

\* C22: the monitor loop ends only when it finds the agent not ACTIVE, and
\* after an exception in a cycle it begins another cycle unless the agent
\* is no longer ACTIVE.
C22_MonitorSurvivesErrors ==
    /\ [][(mon.pc # "exited" /\ mon'.pc = "exited") => status # "active"]_vars
    /\ [][MonitorRaises => mon'.pc = "err_sleep"]_vars
    /\ (mon.pc = "err_sleep") ~> (mon.pc = "record" \/ status # "active" \/ SamplesCapped)

\* A cycle recorded its first sample and failed on the second, and the
\* monitor of the ACTIVE agent has run a whole cycle after it.
C22_Witness ==
    /\ status = "active"
    /\ mon.pc = "top"
    /\ Len(learning_data) = Len(MonitorMetrics) + 1
    /\ learning_data[1].metric = MonitorMetrics[1]
    /\ \A i \in 1..Len(MonitorMetrics) : learning_data[i + 1].metric = MonitorMetrics[i]

\* The three loops of the agent have ended.
AllLoopsExited == proc.pc = "exited" /\ mon.pc = "exited" /\ learn.pc = "exited"

C24_EventuallyExecuted(i) ==
    (i \in TaskIds /\ status = "active" /\ ProcessorAlive /\ consumer # "idle")
        ~> (i \in TaskIds /\ tasks[i].started # <<>>)

\* C24: once the background loops of the hub are started, every task
\* submitted to the ACTIVE agent is still executed.
C24_ProcessorProgresses == \A i \in 1..MaxTasks : C24_EventuallyExecuted(i)

\* The event of a registration change of agent a: the last message sent.
RegistrationEvent(history) == history[Len(history)]

\* C25: a step that adds an agent to the active set or removes it from the
\* set sends one LOW alert, which is pushed to the store of every other
\* active agent and to no other store.
C25_EventToOthersOnly ==
    [][\A a \in Agents :
          (a \in active_agents) # (a \in active_agents') =>
              /\ sent' = sent + 1
              /\ last_send'.ok
              /\ Len(message_history') = Len(message_history) + 1
              /\ FromDict(RegistrationEvent(message_history')).priority = "LOW"
              /\ FromDict(RegistrationEvent(message_history')).content.agent_id = a
              /\ \A b \in Agents :
                    redis_messages'[b] =
                        IF b \in active_agents' \ {a}
                        THEN <<RegistrationEvent(message_history')>> \o redis_messages[b]
                        ELSE redis_messages[b]]_vars

\* The agents a finished share_knowledge call had to send to: those of
\* target_agents when it was given, those active at the call otherwise,
\* without the sender
ShareTargets ==
    (IF share.target_agents.given
     THEN {share.target_agents.list[i] : i \in DOMAIN share.target_agents.list}
     ELSE share.active) \ {share.sender_id}

\* C26: a share_knowledge call that has returned has sent one MEDIUM
\* KNOWLEDGE_SHARING message to each agent of target_agents other than the
\* sender (to each agent active at the call, other than the sender, when
\* target_agents was omitted), and no message to anyone else.
C26_OnePerTarget ==
    share.pc = "returned" =>
        /\ \A a \in ShareTargets :
              Cardinality({i \in DOMAIN share.messages :
                              share.messages[i].recipient_id = a}) = 1
        /\ \A i \in DOMAIN share.messages :
              /\ share.messages[i].recipient_id \in ShareTargets
              /\ share.messages[i].message_type = "KNOWLEDGE_SHARING"
              /\ share.messages[i].priority = "MEDIUM"

\* A message of a store is expired at time t
ExpiredAt(d, t) == \E str \in d.expires_at : FromIsoFormat(str) < t

\* The list `store` has exactly the messages of `messages` that are not
\* expired at t, each of them once
ExactlyUnexpired(store, messages, t) ==
    /\ \A i \in DOMAIN messages :
          ~ExpiredAt(messages[i], t) =>
              Cardinality({j \in DOMAIN store : store[j] = messages[i]}) = 1
    /\ \A j \in DOMAIN store :
          \E i \in DOMAIN messages : messages[i] = store[j] /\ ~ExpiredAt(messages[i], t)

\* cleanup_expired_messages is done with the store of cleanup.agent in this step
StoreReplaced ==
    /\ cleanup.pc \in {"delete", "push"}
    /\ cleanup'.pc = "next"

\* cleanup_expired_messages returns in this step
CleanupReturns == cleanup.pc = "next" /\ cleanup'.pc = "idle"

\* C27: a cleanup_expired_messages call that runs with no send and no receive
\* beside it leaves in the store of each active agent exactly the messages
\* that were there and were not expired when the call began: a store it has
\* rewritten holds each unexpired message of the lrange reply once and nothing
\* else, a store it has not rewritten is as it was, and when the call
\* returns no store of an active agent holds an expired message.
C27_ExactlyUnexpiredKept ==
    [][/\ StoreReplaced =>
            ExactlyUnexpired(redis_messages'[cleanup.agent], cleanup.messages,
                             cleanup.current_time)
       /\ \A a \in Agents :
             cleanup.pc # "idle" /\ redis_messages'[a] # redis_messages[a] =>
                 a = cleanup.agent /\ cleanup.pc \in {"delete", "push"}
       /\ CleanupReturns =>
             \A a \in active_agents : \A i \in DOMAIN redis_messages[a] :
                ~ExpiredAt(redis_messages[a][i], cleanup.current_time)]_<<redis_messages, cleanup>>

\* A call has rewritten a store that had one expired message and two that
\* were not: the two are in the store
C27_Witness ==
    /\ cleanup.pc = "next"
    /\ Len(cleanup.messages) = 3
    /\ \E a \in active_agents :
          /\ Len(redis_messages[a]) = 2
          /\ ExactlyUnexpired(redis_messages[a], cleanup.messages, cleanup.current_time)

\* The step is a _record_performance call
Recorded == learning_data' # learning_data

\* C28: learning_data never has more than 1000 samples; a record that finds
\* it below 1000 adds its sample at the end, and a record that finds it at
\* 1000 leaves 500 samples: the 499 that were last, as they were ordered,
\* and then the new one.
C28_BoundedRing ==
    /\ [](Len(learning_data) <= MaxLearningData)
    /\ [][Recorded =>
            LET n == Len(learning_data)
                m == Len(learning_data')
            IN  IF n < MaxLearningData
                THEN /\ m = n + 1
                     /\ \A i \in 1..n : learning_data'[i] = learning_data[i]
                ELSE /\ m = KeepLearningData
                     /\ \A i \in 1..(m - 1) : learning_data'[i] = learning_data[n - m + 1 + i]
                     /\ learning_data'[m].value = learning_data[n].value + 1]_vars

\* learning_data was cut: the sample of call 1001 is the last of 500
C28_Witness ==
    /\ Len(learning_data) = KeepLearningData
    /\ learning_data[KeepLearningData].value = MaxLearningData + 1
    /\ learning_data[1].value = MaxLearningData + 2 - KeepLearningData

\* C29: a process_messages call does not fail, and when it returns every
\* message of the batch receive_messages gave it was dealt with, in order:
\* a message with no handler for its type was dropped, every other message
\* was passed to its handler, whether or not a handler before it raised.
C29_BatchFullyDispatched ==
    /\ inbox.pc # "failed"
    /\ inbox.pc = "returned" =>
          /\ Len(inbox.handled) = Len(inbox.messages)
          /\ \A i \in DOMAIN inbox.handled :
                /\ inbox.handled[i].uid = inbox.messages[i].uid
                /\ inbox.handled[i].outcome = "no_handler"
                      <=> inbox.messages[i].message_type \notin MessageHandlers

\* A batch of three: no handler for the first, the handler of the second
\* raised, the handler of the third was still called
C29_Witness ==
    /\ inbox.pc = "returned"
    /\ Len(inbox.handled) = 3
    /\ inbox.handled[1].outcome = "no_handler"
    /\ inbox.handled[2].outcome = "raised"
    /\ inbox.handled[3].outcome = "returned"

\* An entry written by the hub (_send_via_redis), not by a peer
HubEntry(d) == "expires_at" \in DOMAIN d

\* The step is an rpop of receive_messages
InboxPopped ==
    /\ inbox.pc = "popping"
    /\ Len(redis_messages'[inbox.agent]) < Len(redis_messages[inbox.agent])

\* C30: an entry the hub pushed to an agent's list, not expired, of a type
\* the agent has a handler for, is in the batch of the process_messages call
\* that pops it, and so is dispatched.
C30_StoredIsDispatched ==
    [][InboxPopped =>
          LET list == redis_messages[inbox.agent]
              d == list[Len(list)]
          IN  (HubEntry(d) /\ ~ExpiredAt(d, now) /\ d.message_type \in MessageHandlers)
                  => \E i \in DOMAIN inbox'.messages : inbox'.messages[i].uid = d.uid]_vars

PlaceInReply(d) == CHOOSE k \in DOMAIN cleanup.messages : cleanup.messages[k] = d

\* C32: a cleanup_expired_messages call that has removed an expired message
\* from a store leaves the other messages in the order they had: two
\* entries of the rewritten list are placed as they were in the list read
\* (get_messages_for_agent pops from the tail, so the order of the list is
\* the order of delivery).
C32_SweepKeepsOrder ==
    [][StoreReplaced =>
          LET store == redis_messages'[cleanup.agent]
          IN  \A i, j \in DOMAIN store :
                 i < j => PlaceInReply(store[i]) < PlaceInReply(store[j])]_vars

\* cleanup_expired_messages deletes the list of cleanup.agent in this step
StoreDeleted == cleanup.pc = "delete" /\ cleanup'.pc # "delete"

\* C33: no unexpired message is lost by cleanup_expired_messages, whatever
\* send_message does beside it: every unexpired entry that is in a list
\* when the call deletes it is one of valid_messages, which the call puts
\* back (or the list had no unexpired entry).
C33_UnexpiredSurvivesSweep ==
    [][StoreDeleted =>
          LET store == redis_messages[cleanup.agent]
          IN  \A i \in DOMAIN store :
                 ~ExpiredAt(store[i], cleanup.current_time) =>
                     \E k \in DOMAIN cleanup.valid_messages :
                        cleanup.valid_messages[k] = store[i]]_vars

\* C34: the status of a task changes only from 'pending' to 'completed' or
\* to 'failed': once a task is 'completed' or 'failed' its status, its
\* result and its error stay as they are.
C34_TerminalStatusKept ==
    [][\A i \in TaskIds :
          tasks[i].status # "pending" =>
              /\ tasks'[i].status = tasks[i].status
              /\ tasks'[i].result = tasks[i].result
              /\ tasks'[i].error = tasks[i].error]_vars

\* A step in which the task processor or the monitor leaves its loop for good.
LoopEnds ==
    \/ proc.pc # "exited" /\ proc'.pc = "exited"
    \/ mon.pc # "exited" /\ mon'.pc = "exited"

\* C35: a learning cycle does not end the other loops: the task processor
\* and the monitor never leave their loops while the status is LEARNING, so
\* that tasks submitted after the cycle are executed and the monitor goes on.
C35_LoopsOutliveLearning == [][LoopEnds => status # "learning"]_vars

\* C36: after stop() has set the status to INACTIVE, only a call of
\* start() makes it ACTIVE again; a learning cycle that is in progress
\* does not.
C36_InactiveUntilStart == [][(status = "inactive" /\ status' = "active") => Start]_vars

\* The number of task-processor, monitor and learning loops that are running.
RunningLoops ==
    [processor |-> earlier.processor + Alive(proc.pc),
     monitor |-> earlier.monitor + Alive(mon.pc),
     learning |-> earlier.learning + Alive(learn.pc)]

\* C37: whatever the sequence of start() and stop() calls, at most one
\* task-processor loop, one monitor loop and one learning loop is running.
C37_OneLoopOfEachKind ==
    RunningLoops.processor <= 1 /\ RunningLoops.monitor <= 1 /\ RunningLoops.learning <= 1

\* In how many places task i is: once for each entry of the queue, once if
\* the task processor holds it, once if it is terminal and let go.
Places(i) ==
    Cardinality({k \in DOMAIN task_queue : task_queue[k] = i})
        + (IF proc.task = i THEN 1 ELSE 0)
        + (IF proc.task # i /\ tasks[i].status # "pending" THEN 1 ELSE 0)

\* C38: every submitted task is in exactly one place (the queue, the task
\* processor, or terminal), deferrals included, and process_task is
\* entered at most once for it.
C38_TaskConserved ==
    \A i \in TaskIds : Places(i) = 1 /\ Len(tasks[i].started) <= 1

\* a task that was deferred, put back, and executed later; another waits
C38_Witness ==
    \E i, j \in TaskIds :
        /\ tasks[i].deferred /\ Finished(i) /\ Places(i) = 1
        /\ InQueue(j)

\* Task i has no scheduled_at.
Unscheduled(i) == tasks[i].scheduled_at = {}

\* C39: tasks without scheduled_at are executed in the order of their
\* submission, whatever their priority: of two of them, process_task is not
\* entered for the later one before the earlier one.
C39_FifoWhateverPriority ==
    \A i, j \in TaskIds :
        (i < j /\ Unscheduled(i) /\ Unscheduled(j) /\ tasks[j].started # <<>>)
            => tasks[i].started # <<>>

\* a LOW task is executed while a CRITICAL task submitted after it waits
C39_Witness ==
    \E i, j \in TaskIds :
        /\ i < j /\ Unscheduled(i) /\ Unscheduled(j)
        /\ tasks[i].priority = "LOW" /\ tasks[j].priority = "CRITICAL"
        /\ proc.task = i /\ proc.pc = "exec" /\ InQueue(j)

\* C40: a coordinate_task call gets a correlation id that differs from the
\* id of the call before it (the ids follow the clock, so from the ids of
\* all earlier calls), also when both calls are made within one second.
C40_DistinctCoordinationIds ==
    [][(CoordinateBegin /\ coord.coordination_id # "None")
          => coord'.coordination_id # coord.coordination_id]_vars

====
